---- MODULE Spec2Model ----
(***************************************************************************)
(* NoteApp: the Document / Page / Object data model (src/src/core) and its *)
(* persistence engine (Storage), as a state machine.                       *)
(*                                                                         *)
(* Objects and pages are shared_ptr-owned QObjects: each has an identity   *)
(* (its address, field ptr) and an id string (field id).  The constructor  *)
(* draws the id from QUuid::createUuid(); both are modelled by one fresh   *)
(* number taken from the allocation counter nextRef, so that a constructed *)
(* entity starts with id = ptr and fromJson may overwrite the id.          *)
(***************************************************************************)
EXTENDS Integers, Sequences, FiniteSets, TLC

(***************************************************************************)
(* Bounds of the model.                                                    *)
(***************************************************************************)
MaxRef == 5        \* entities (document, pages, objects) constructed in a run
MaxObjects == 3    \* objects on one page
MaxLayer == 2      \* layer values a caller passes are 0..MaxLayer
MaxCoord == 40     \* objects are moved while their x stays within 0..MaxCoord
MaxPages == 3      \* pages in the document
MaxLinkId == 2     \* page ids used as link sources and targets are 1..MaxLinkId
MaxStorePages == 2 \* pages in a document that is saved
MaxDocRef == 4     \* entities constructed by page operations in a run on the page list
MaxStoreRef == 4   \* entities constructed in a run that saves the document
MaxCloneRef == 4   \* objects are added while the allocation counter is at most this
MaxSelRef == 6     \* entities constructed in a run that duplicates a selection of two
MaxTagLen == 3     \* tag lists passed to setTags have at most this many entries
MaxStrokes == 2    \* strokes in one DrawingObject
MaxSelObjects == 4 \* objects on the page whose selection of two is duplicated
MaxPoints == 5     \* raw input points of one live stroke
MaxDrawn == 3      \* strokes of the drawing object whose selection is followed
MaxSize == 45      \* an object is scaled while its width and height stay within this
MaxFactor == 3     \* scale factors are 1..MaxFactor
TicksPerSecond == 2 \* clock ticks in one second, the unit of the ISO date format
MaxClock == 4      \* the clock advances up to this many ticks
MaxRoundRef == 8   \* entities constructed in a run that reloads the document
MaxCopyRef == 4    \* documents are duplicated while the allocation counter is at most this

Null == 0          \* nullptr

VARIABLES
    m_id,           \* Document::m_id
    m_title,        \* Document::m_title
    m_tags,         \* Document::m_tags (QStringList)
    m_pages,        \* Document::m_pages (QVector<shared_ptr<Page>>), each page a record
    m_currentPage,  \* Document::m_currentPage, the ptr of a page or Null
    m_modified,     \* Document::m_modified
    m_description,  \* Document::m_description
    m_createdDate,  \* Document::m_createdDate, in clock ticks
    m_modifiedDate, \* Document::m_modifiedDate, in clock ticks
    now,            \* QDateTime::currentDateTime(), in clock ticks
    m_links,        \* Document::m_links (QMap<QString, QStringList>)
    nextRef,        \* the next fresh identity / uuid
    m_initialized,  \* Storage::m_initialized
    dbOpen,         \* Storage::m_database.isOpen()
    tables,         \* the documents and pages tables as the connection reads them
    txBase,         \* <<the tables at BEGIN>> while a transaction is active, else NoTx
    hist,           \* history: the document as last saved, and whether the storage
                    \* has been reopened since
    m_currentDocument,  \* Note::m_currentDocument: Null or DocPtr
    note_m_modified,    \* Note::m_modified
    m_autoSaveEnabled,  \* Note::m_autoSaveEnabled: the autosave timer runs
    errorSlot,          \* MainWindow::onStorageError is connected to Note::storageError
    m_databasePath,     \* Storage::m_databasePath
    otherTables,        \* the database file that is not at m_databasePath
    backup,             \* the backup file: NoFile or <<the tables copied>>
    drawingObject,      \* a DrawingObject of its own: m_strokes, m_selectedStrokes,
                        \* m_currentMode, m_drawing, m_currentStroke.path,
                        \* m_smoothPoints, and the raw points of the live stroke
    last            \* the last operation called, its arguments, its result and
                    \* the calls and signals made inside it, in order; a text
                    \* argument (a path, a title, a query) is in the field text

docVars == <<m_id, m_title, m_description, m_createdDate, m_modifiedDate, m_tags, m_pages,
             m_currentPage, m_modified, m_links>>
storeVars == <<m_initialized, dbOpen, tables, txBase, hist>>
noteVars == <<m_currentDocument, note_m_modified, m_autoSaveEnabled, errorSlot>>
fileVars == <<m_databasePath, otherTables, backup>>
vars == <<docVars, nextRef, storeVars, noteVars, fileVars, drawingObject, now, last>>

(***************************************************************************)
(* QVector helpers (1-based here, 0-based in the code).                    *)
(***************************************************************************)
RemoveAt(s, i) == [k \in 1..(Len(s) - 1) |-> IF k < i THEN s[k] ELSE s[k + 1]]

InsertAt(s, i, e) ==
    [k \in 1..(Len(s) + 1) |-> IF k < i THEN s[k] ELSE IF k = i THEN e ELSE s[k - 1]]

\* QVector::move(from, to)
Move(s, from, to) == InsertAt(RemoveAt(s, from), to, s[from])

\* QVector::indexOf on shared_ptr elements compares addresses; 0 stands for -1
IndexOf(s, ptr) ==
    IF \E k \in 1..Len(s) : s[k].ptr = ptr
    THEN CHOOSE k \in 1..Len(s) : s[k].ptr = ptr /\ \A j \in 1..(k - 1) : s[j].ptr # ptr
    ELSE 0

IndexPerms(n) == {f \in [1..n -> 1..n] : \A a, b \in 1..n : f[a] = f[b] => a = b}

(***************************************************************************)
(* Object (object.cpp)                                                     *)
(***************************************************************************)
\* Object::Object: m_bounds(0, 0, 100, 100)
DefaultSize == 100

\* TextObject::updateDocumentSize: the height QTextDocument lays the content out
\* to, m_document->size().height(); 20 stands for the height of one line of the
\* font, and a content c for a text of c + 1 lines
ContentHeight(content) == 20 * (content + 1)

\* Object::Object, then the caller's setLayer before the object is on a page.
\* TextObject::TextObject ends with setupDocument(), whose updateDocumentSize()
\* sets the height of the bounds to the height of the (empty) content.
NewObject(ref, type, layer) ==
    [ptr |-> ref, id |-> ref, type |-> type, x |-> 0, y |-> 0, w |-> DefaultSize,
     h |-> IF type = "Text" THEN ContentHeight(0) ELSE DefaultSize,
     selected |-> FALSE, layer |-> layer, visible |-> TRUE, content |-> 0]

\* Object::toJson with TextObject::toJson / DrawingObject::toJson: the id, the type,
\* the bounds, the layer, the visibility and the variant's content; not m_selected
ObjectToJson(o) ==
    [id |-> o.id, type |-> o.type, x |-> o.x, y |-> o.y, w |-> o.w, h |-> o.h,
     layer |-> o.layer, visible |-> o.visible, content |-> o.content]

\* Object::fromJson with the variant's fromJson, on object o: every serialized
\* field is overwritten, the id included; m_selected is left as it is.
\* TextObject::fromJson ends with setupDocument(), whose updateDocumentSize()
\* replaces the height just read by the height of the content.
ObjectFromJson(o, json) ==
    [o EXCEPT !.id = json.id, !.x = json.x, !.y = json.y, !.w = json.w,
              !.h = IF o.type = "Text" THEN ContentHeight(json.content) ELSE json.h,
              !.layer = json.layer,
              !.visible = json.visible, !.content = json.content]

\* Clone returning the object itself, not a copy
CloneAliased(o, ref) == o

\* TextObject::clone / DrawingObject::clone: a new object of the same type,
\* loaded with fromJson(this->toJson())
Clone(o, ref) == ObjectFromJson(NewObject(ref, o.type, 0), ObjectToJson(o))

\* int / int in C++: the quotient truncated toward zero
TruncDiv(a, b) == IF a >= 0 THEN a \div b ELSE -((-a) \div b)

\* QRect::center() of the bounds of o: ((x1 + x2) / 2, (y1 + y2) / 2) with
\* x2 = x1 + width - 1 and y2 = y1 + height - 1
Center(o) == <<TruncDiv(o.x + (o.x + o.w - 1), 2), TruncDiv(o.y + (o.y + o.h - 1), 2)>>

\* Object::scale(factor) for an integer factor: the size is multiplied, and the
\* top left corner is the old centre minus half the new size
Scale(o, factor) ==
    LET center == Center(o)
        width == o.w * factor
        height == o.h * factor
    IN  [o EXCEPT !.x = center[1] - TruncDiv(width, 2),
                  !.y = center[2] - TruncDiv(height, 2),
                  !.w = width, !.h = height]

\* Object::moveBy: setBounds(m_bounds.translated(delta))
MoveBy(o, dx, dy) == [o EXCEPT !.x = @ + dx, !.y = @ + dy]

\* Object::contains(point): QRect::contains on the bounds, DefaultSize wide
ObjectContains(o, px, py) ==
    /\ o.x <= px /\ px < o.x + o.w
    /\ o.y <= py /\ py < o.y + o.h

(***************************************************************************)
(* Page (page.cpp): the object list                                        *)
(***************************************************************************)
IsSortedByLayer(objs) ==
    \A k \in 1..(Len(objs) - 1) : objs[k].layer <= objs[k + 1].layer

\* What a stable sort by layer would leave: objects of equal layer in their
\* previous order
StableSortOutcomes(objs) ==
    {[k \in 1..Len(objs) |-> objs[f[k]]] :
        f \in {g \in IndexPerms(Len(objs)) :
                  \A a, b \in 1..Len(objs) :
                      a < b => \/ objs[g[a]].layer < objs[g[b]].layer
                               \/ objs[g[a]].layer = objs[g[b]].layer /\ g[a] < g[b]}}

\* Page::sortObjectsByLayer: std::sort with the comparator a.layer < b.layer.
\* std::sort leaves the order of equivalent elements unspecified, so every
\* permutation that is sorted by layer is a possible outcome.
SortOutcomes(objs) ==
    {s \in {[k \in 1..Len(objs) |-> objs[f[k]]] : f \in IndexPerms(Len(objs))} :
        IsSortedByLayer(s)}

\* Object::setLayer on the object at index i of a page, with the connected slot
\* Page::onObjectLayerChanged: the signal (and the sort) only on a change.
SetLayerOutcomes(objs, i, layer) ==
    IF objs[i].layer = layer
    THEN {objs}
    ELSE SortOutcomes([objs EXCEPT ![i].layer = layer])

\* Page::addObject
AddObjectOutcomes(objs, o) == SortOutcomes(Append(objs, o))

\* Page::bringToFront (index >= 0)
BringToFrontOutcomes(objs, i) ==
    SetLayerOutcomes(Move(objs, i, Len(objs)), Len(objs), Len(objs) - 1)

\* Page::sendToBack (index >= 0)
SendToBackOutcomes(objs, i) ==
    SetLayerOutcomes(Move(objs, i, 1), 1, 0)

\* Page::bringForward: the code's index is i - 1, the new layer index + 1 = i
BringForwardOutcomes(objs, i) ==
    IF i < Len(objs)
    THEN SetLayerOutcomes(Move(objs, i, i + 1), i + 1, i)
    ELSE {objs}

\* Page::sendBackward: the code's index is i - 1, the new layer index - 1 = i - 2
SendBackwardOutcomes(objs, i) ==
    IF i > 1
    THEN SetLayerOutcomes(Move(objs, i, i - 1), i - 1, i - 2)
    ELSE {objs}

\* Page::setObjectLayer: Object::setLayer (with its slot), then the sort
SetObjectLayerOutcomes(objs, i, layer) ==
    UNION {SortOutcomes(s) : s \in SetLayerOutcomes(objs, i, layer)}

\* Page::objectAt(point): the scan runs from the last object down to the first
\* and returns the first visible object that contains the point, else nullptr
ObjectAt(objs, px, py) ==
    LET hits == {k \in 1..Len(objs) : objs[k].visible /\ ObjectContains(objs[k], px, py)}
    IN  IF hits = {}
        THEN Null
        ELSE objs[CHOOSE k \in hits : \A j \in hits : j <= k].ptr

\* Page::clearSelection
ClearSelection(objs) == [k \in 1..Len(objs) |-> [objs[k] EXCEPT !.selected = FALSE]]

\* Page::selectAll
SelectAll(objs) ==
    [k \in 1..Len(objs) |-> IF objs[k].visible THEN [objs[k] EXCEPT !.selected = TRUE]
                                               ELSE objs[k]]

\* Page::moveSelectedObjects
MoveSelected(objs, dx, dy) ==
    [k \in 1..Len(objs) |-> IF objs[k].selected THEN MoveBy(objs[k], dx, dy) ELSE objs[k]]

IsSelected(o) == o.selected

\* The loop of Page::duplicateSelectedObjects over objectsToDuplicate: clone,
\* moveBy(20, 20), setSelected(true), addObject; the clones take the refs from ref on
RECURSIVE AddClones(_, _, _)
AddClones(objs, originals, ref) ==
    IF originals = <<>>
    THEN {objs}
    ELSE LET clone == [MoveBy(Clone(Head(originals), ref), 20, 20) EXCEPT !.selected = TRUE]
         IN  UNION {AddClones(s, Tail(originals), ref + 1) :
                        s \in AddObjectOutcomes(objs, clone)}

\* Page::duplicateSelectedObjects: the selected objects are collected first, the
\* selection is cleared, then the clones are added
DuplicateSelectedOutcomes(objs, ref) ==
    AddClones(ClearSelection(objs), SelectSeq(objs, IsSelected), ref)

(***************************************************************************)
(* Document (document.cpp): construction and the modified flag             *)
(***************************************************************************)
\* Page::Page(title): size 800x600, white background, no objects, a fresh id
NewPage(ref, title) ==
    [ptr |-> ref, id |-> ref, title |-> title, width |-> 800, height |-> 600,
     bg |-> "white", objects |-> <<>>]

\* QStandardPaths::writableLocation(AppDataLocation) + "/notes.db"
DefaultPath == "notes.db"

\* The database file before any table has a row
EmptyTables == [documents |-> {}, pages |-> {}]

\* No transaction is active on the connection; an active one holds <<tables at BEGIN>>
NoTx == <<>>

\* A file that does not exist; one that does holds <<its tables>>
NoFile == <<>>

\* The one Document object of the model
DocPtr == 1

\* No value: a null pointer result, no document saved yet; a value v is <<v>>
None == <<>>

\* DrawingObject::DrawingObject(): no strokes, PenMode, m_drawing(false).  A
\* stroke is its path, the sequence of the points of moveTo and lineTo.
NewDrawingObject ==
    [m_strokes |-> <<>>, m_selectedStrokes |-> <<>>, m_currentMode |-> "PenMode",
     m_drawing |-> FALSE, m_currentStroke |-> <<>>, m_smoothPoints |-> <<>>,
     raw |-> <<>>]

\* Document::Document(): generateId(), then createNewPage("Page 1"), whose addPage
\* makes the page current and calls markAsModified().  Storage::Storage():
\* m_initialized(false), no connection; the database files are empty.  Note::Note():
\* no current document, m_modified(false), m_autoSaveEnabled(false).
Init ==
    /\ m_id = 1
    /\ m_title = <<"Untitled Document">>
    /\ m_description = <<>>
    /\ m_createdDate = 0
    /\ m_modifiedDate = 0
    /\ now = 0
    /\ m_tags = <<>>
    /\ m_pages = <<NewPage(2, <<"Page 1">>)>>
    /\ m_currentPage = 2
    /\ m_modified = TRUE
    /\ m_links = <<>>
    /\ nextRef = 3
    /\ m_initialized = FALSE
    /\ dbOpen = FALSE
    /\ tables = EmptyTables
    /\ txBase = NoTx
    /\ hist = [saved |-> None, reopened |-> FALSE]
    /\ m_currentDocument = Null
    /\ note_m_modified = FALSE
    /\ m_autoSaveEnabled = FALSE
    /\ errorSlot = FALSE
    /\ m_databasePath = ""
    /\ otherTables = EmptyTables
    /\ backup = NoFile
    /\ drawingObject = NewDrawingObject
    /\ last = [op |-> "Document", a |-> 0, b |-> 0, c |-> 0, ret |-> Null, events |-> <<>>, text |-> <<>>]

Objects(p) == m_pages[p].objects

\* A call on the document, a page or an object that leaves Note::m_modified as
\* noteModified; it touches neither the storage nor the files
CalledOn(op, a, b, c, noteModified) ==
    /\ last' = [op |-> op, a |-> a, b |-> b, c |-> c, ret |-> Null, events |-> <<>>, text |-> <<>>]
    /\ UNCHANGED <<drawingObject, now>>
    /\ note_m_modified' = noteModified
    /\ UNCHANGED <<storeVars, fileVars, m_currentDocument, m_autoSaveEnabled, errorSlot>>

\* A call on the document, a page or an object: the operation, its arguments, and
\* for removePage whether the page removed was the current page (c = 1).  Such a
\* call does not touch the storage.  Document::setModified emits modifiedChanged
\* when the flag changes, and Note::onDocumentModifiedChanged copies the flag of
\* the current document (Note::connectDocumentSignals).
Called3(op, a, b, c) ==
    CalledOn(op, a, b, c, IF m_currentDocument # Null /\ m_modified' # m_modified
                          THEN m_modified'
                          ELSE note_m_modified)

Called(op, a, b) == Called3(op, a, b, 0)

\* QList::removeAll
RemoveAll(seq, e) == SelectSeq(seq, LAMBDA x : x # e)

(***************************************************************************)
(* DrawingObject (drawingobject.cpp): live stroke capture and the stroke   *)
(* list with its selection.  Stroke indexes are 0-based as in the code.    *)
(***************************************************************************)
SMOOTH_WINDOW_SIZE == 3

\* QPoint sum over points[k..], coordinate c
RECURSIVE SumOf(_, _, _)
SumOf(points, k, c) ==
    IF k > Len(points) THEN 0 ELSE points[k][c] + SumOf(points, k + 1, c)

\* DrawingObject::smoothPoint(point) on object d: the incoming point while
\* m_smoothPoints holds fewer than SMOOTH_WINDOW_SIZE points, else the mean of
\* the last SMOOTH_WINDOW_SIZE entries of m_smoothPoints
SmoothPoint(d, point) ==
    IF Len(d.m_smoothPoints) < SMOOTH_WINDOW_SIZE
    THEN point
    ELSE LET size == Len(d.m_smoothPoints)
             from == IF size - SMOOTH_WINDOW_SIZE > 0 THEN size - SMOOTH_WINDOW_SIZE ELSE 0
             count == size - from
         IN  <<TruncDiv(SumOf(d.m_smoothPoints, from + 1, 1), count),
               TruncDiv(SumOf(d.m_smoothPoints, from + 1, 2), count)>>

\* A call on the DrawingObject that leaves it as d
DrawingCall(op, a, b, d) ==
    /\ drawingObject' = d
    /\ last' = [op |-> op, a |-> a, b |-> b, c |-> 0, ret |-> Null, events |-> <<>>,
                text |-> <<>>]
    /\ UNCHANGED <<docVars, nextRef, storeVars, noteVars, fileVars, now>>

\* DrawingObject::setCurrentMode(mode)
SetCurrentMode(mode) ==
    DrawingCall("setCurrentMode", 0, 0, [drawingObject EXCEPT !.m_currentMode = mode])

\* DrawingObject::startStroke(point)
StartStroke(point) ==
    DrawingCall("startStroke", point[1], point[2],
        IF drawingObject.m_drawing
        THEN drawingObject
        ELSE [drawingObject EXCEPT !.m_drawing = TRUE,
                                   !.m_currentStroke = <<point>>,
                                   !.m_smoothPoints = <<point>>,
                                   !.raw = <<point>>])

\* DrawingObject::addPointToStroke(point): the smoothed point is remembered, and
\* appended to the path unless the mode is EraserMode
AddPointToStroke(point) ==
    LET smoothedPoint == SmoothPoint(drawingObject, point) IN
    DrawingCall("addPointToStroke", point[1], point[2],
        IF ~drawingObject.m_drawing
        THEN drawingObject
        ELSE [drawingObject EXCEPT
                 !.m_smoothPoints = Append(@, smoothedPoint),
                 !.raw = Append(@, point),
                 !.m_currentStroke = IF drawingObject.m_currentMode = "EraserMode"
                                     THEN @
                                     ELSE Append(@, smoothedPoint)])

\* QPainterPath::length() > 0: two consecutive points of the path differ
PathHasLength(path) == \E k \in 1..(Len(path) - 1) : path[k] # path[k + 1]

\* DrawingObject::addStroke(stroke) on object d
AddStrokeIn(d, stroke) == [d EXCEPT !.m_strokes = Append(@, stroke)]

\* DrawingObject::finishStroke()
FinishStroke ==
    LET d == IF PathHasLength(drawingObject.m_currentStroke)
             THEN AddStrokeIn(drawingObject, drawingObject.m_currentStroke)
             ELSE drawingObject
    IN  DrawingCall("finishStroke", 0, 0,
            IF ~drawingObject.m_drawing
            THEN drawingObject
            ELSE [d EXCEPT !.m_drawing = FALSE, !.m_currentStroke = <<>>,
                           !.m_smoothPoints = <<>>, !.raw = <<>>])

\* DrawingObject::cancelStroke()
CancelStroke ==
    DrawingCall("cancelStroke", 0, 0,
        IF ~drawingObject.m_drawing
        THEN drawingObject
        ELSE [drawingObject EXCEPT !.m_drawing = FALSE, !.m_currentStroke = <<>>,
                                   !.m_smoothPoints = <<>>, !.raw = <<>>])

\* DrawingObject::removeStroke(index) on object d
RemoveStrokeIn(d, index) ==
    IF index >= 0 /\ index < Len(d.m_strokes)
    THEN [d EXCEPT !.m_strokes = RemoveAt(@, index + 1),
                   !.m_selectedStrokes = RemoveAll(@, index)]
    ELSE d

\* DrawingObject::addStroke(stroke)
AddStroke(stroke) == DrawingCall("addStroke", 0, 0, AddStrokeIn(drawingObject, stroke))

\* DrawingObject::removeStroke(index)
RemoveStroke(index) ==
    DrawingCall("removeStroke", index, 0, RemoveStrokeIn(drawingObject, index))

\* DrawingObject::clearStrokes()
ClearStrokes ==
    DrawingCall("clearStrokes", 0, 0,
        [drawingObject EXCEPT !.m_strokes = <<>>, !.m_selectedStrokes = <<>>])

\* DrawingObject::selectStroke(index)
SelectStroke(index) ==
    DrawingCall("selectStroke", index, 0,
        IF /\ index >= 0
           /\ index < Len(drawingObject.m_strokes)
           /\ \A k \in 1..Len(drawingObject.m_selectedStrokes) :
                  drawingObject.m_selectedStrokes[k] # index
        THEN [drawingObject EXCEPT !.m_selectedStrokes = Append(@, index)]
        ELSE drawingObject)

\* DrawingObject::deselectStroke(index)
DeselectStroke(index) ==
    DrawingCall("deselectStroke", index, 0,
        [drawingObject EXCEPT !.m_selectedStrokes = RemoveAll(@, index)])

\* std::sort(begin, end, std::greater<int>()): the integers of s in descending order
RECURSIVE SortDescending(_)
SortDescending(s) ==
    IF s = <<>>
    THEN <<>>
    ELSE LET k == CHOOSE i \in 1..Len(s) : \A j \in 1..Len(s) : s[j] <= s[i]
         IN  <<s[k]>> \o SortDescending(RemoveAt(s, k))

\* removeStroke(index) for each index of sortedSelection from position k on
RECURSIVE RemoveStrokes(_, _, _)
RemoveStrokes(d, sortedSelection, k) ==
    IF k > Len(sortedSelection)
    THEN d
    ELSE RemoveStrokes(RemoveStrokeIn(d, sortedSelection[k]), sortedSelection, k + 1)

\* DrawingObject::deleteSelectedStrokes()
DeleteSelectedStrokes ==
    DrawingCall("deleteSelectedStrokes", 0, 0,
        RemoveStrokes(drawingObject, SortDescending(drawingObject.m_selectedStrokes), 1))

\* The strokes at the valid indexes of selection, from position k on
RECURSIVE StrokesAt(_, _, _)
StrokesAt(d, selection, k) ==
    IF k > Len(selection)
    THEN <<>>
    ELSE (IF selection[k] >= 0 /\ selection[k] < Len(d.m_strokes)
          THEN <<d.m_strokes[selection[k] + 1]>>
          ELSE <<>>) \o StrokesAt(d, selection, k + 1)

\* DrawingObject::duplicateSelectedStrokes(): the selected strokes are appended
DuplicateSelectedStrokes ==
    DrawingCall("duplicateSelectedStrokes", 0, 0,
        [drawingObject EXCEPT
            !.m_strokes = @ \o StrokesAt(drawingObject, drawingObject.m_selectedStrokes, 1)])

\* DrawingObject::toJson(): the strokes and the current mode
DrawingToJson(d) == [strokes |-> d.m_strokes, currentMode |-> d.m_currentMode]

\* DrawingObject::fromJson(json): m_strokes and m_currentMode are replaced;
\* m_selectedStrokes is not touched
DrawingFromJson(json) ==
    DrawingCall("drawingFromJson", Len(json.strokes), 0,
        [drawingObject EXCEPT !.m_strokes = json.strokes,
                              !.m_currentMode = json.currentMode])

(***************************************************************************)
(* Page operations on page p of the document.  A page in m_pages is        *)
(* connected to the document (connectPageSignals): objectAdded and         *)
(* objectRemoved reach Document::markAsModified, no other object or page   *)
(* signal does.                                                            *)
(***************************************************************************)
\* Page::addObject(object) with a newly made object
PageAddObject(p, type, layer) ==
    /\ nextRef <= MaxRef
    /\ Len(Objects(p)) < MaxObjects
    /\ \E s \in AddObjectOutcomes(Objects(p), NewObject(nextRef, type, layer)) :
           m_pages' = [m_pages EXCEPT ![p].objects = s]
    /\ nextRef' = nextRef + 1
    /\ m_modified' = TRUE
    /\ m_modifiedDate' = now
    /\ UNCHANGED <<m_id, m_description, m_createdDate, m_title, m_tags, m_currentPage, m_links>>
    /\ Called("addObject", nextRef, layer)

\* Page::removeObject(int index), index in the code's 0-based numbering
PageRemoveObjectAt(p, index) ==
    /\ IF index >= 0 /\ index < Len(Objects(p))
       THEN /\ m_pages' = [m_pages EXCEPT ![p].objects = RemoveAt(@, index + 1)]
            /\ m_modified' = TRUE
            /\ m_modifiedDate' = now
       ELSE UNCHANGED <<m_pages, m_modified, m_modifiedDate>>
    /\ UNCHANGED <<m_id, m_description, m_createdDate, m_title, m_tags, m_currentPage, m_links, nextRef>>
    /\ Called("removeObjectAt", index, p)

\* Page::removeObject(shared_ptr<Object>) of the object at position i
PageRemoveObject(p, i) ==
    /\ m_pages' = [m_pages EXCEPT ![p].objects = RemoveAt(@, IndexOf(@, @[i].ptr))]
    /\ m_modified' = TRUE
    /\ m_modifiedDate' = now
    /\ UNCHANGED <<m_id, m_description, m_createdDate, m_title, m_tags, m_currentPage, m_links, nextRef>>
    /\ Called("removeObject", Objects(p)[i].ptr, 0)

\* A z-order or layer operation: the page's object list becomes one of outcomes
Reorder(p, outcomes, op, a, b) ==
    /\ \E s \in outcomes : m_pages' = [m_pages EXCEPT ![p].objects = s]
    /\ UNCHANGED <<m_id, m_description, m_createdDate, m_title, m_tags, m_currentPage, m_modified, m_modifiedDate, m_links, nextRef>>
    /\ Called(op, a, b)

PageBringToFront(p, i) ==
    Reorder(p, BringToFrontOutcomes(Objects(p), i), "bringToFront", Objects(p)[i].ptr, 0)

PageSendToBack(p, i) ==
    Reorder(p, SendToBackOutcomes(Objects(p), i), "sendToBack", Objects(p)[i].ptr, 0)

PageBringForward(p, i) ==
    Reorder(p, BringForwardOutcomes(Objects(p), i), "bringForward", Objects(p)[i].ptr, 0)

PageSendBackward(p, i) ==
    Reorder(p, SendBackwardOutcomes(Objects(p), i), "sendBackward", Objects(p)[i].ptr, 0)

PageSetObjectLayer(p, i, layer) ==
    Reorder(p, SetObjectLayerOutcomes(Objects(p), i, layer), "setObjectLayer",
            Objects(p)[i].ptr, layer)

\* Object::setLayer called directly on an object of the page
ObjectSetLayer(p, i, layer) ==
    Reorder(p, SetLayerOutcomes(Objects(p), i, layer), "setLayer", Objects(p)[i].ptr, layer)

\* Object::setVisible; Page::onObjectVisibilityChanged only re-emits
\* objectSelectionChanged, which the document is not connected to
ObjectSetVisible(p, i, visible) ==
    Reorder(p, {[Objects(p) EXCEPT ![i].visible = visible]}, "setVisible",
            Objects(p)[i].ptr, IF visible THEN 1 ELSE 0)

\* Object::setSelected through Page::selectObject / Page::deselectObject
PageSelectObject(p, i) ==
    Reorder(p, {[Objects(p) EXCEPT ![i].selected = TRUE]}, "selectObject",
            Objects(p)[i].ptr, 0)

PageDeselectObject(p, i) ==
    Reorder(p, {[Objects(p) EXCEPT ![i].selected = FALSE]}, "deselectObject",
            Objects(p)[i].ptr, 0)

PageClearSelection(p) ==
    Reorder(p, {ClearSelection(Objects(p))}, "clearSelection", 0, 0)

PageSelectAll(p) ==
    Reorder(p, {SelectAll(Objects(p))}, "selectAll", 0, 0)

\* Page::moveSelectedObjects; Page::onObjectBoundsChanged does nothing
PageMoveSelectedObjects(p, dx, dy) ==
    /\ \A k \in 1..Len(Objects(p)) : Objects(p)[k].selected => Objects(p)[k].x + dx <= MaxCoord
    /\ Reorder(p, {MoveSelected(Objects(p), dx, dy)}, "moveSelectedObjects", dx, dy)

\* Object::moveBy called directly on an object of the page
ObjectMoveBy(p, i, dx, dy) ==
    /\ Objects(p)[i].x + dx <= MaxCoord
    /\ Reorder(p, {[Objects(p) EXCEPT ![i] = MoveBy(@, dx, dy)]}, "moveBy",
               Objects(p)[i].ptr, dx)

\* TextObject::setContent on the object the i-th entry points to: every entry
\* that holds the same pointer shows the new content, and after a change
\* setupDocument() has set the height to the content's; the page connects no
\* slot to contentChanged
TextSetContent(p, i, content) ==
    /\ Objects(p)[i].type = "Text"
    /\ Reorder(p, {[k \in 1..Len(Objects(p)) |->
                       IF Objects(p)[k].ptr = Objects(p)[i].ptr
                       THEN [Objects(p)[k] EXCEPT
                                !.content = content,
                                !.h = IF Objects(p)[k].content # content
                                      THEN ContentHeight(content)
                                      ELSE @]
                       ELSE Objects(p)[k]]},
               "setContent", Objects(p)[i].ptr, content)

\* DrawingObject::addStroke on the i-th object of the page: the content of a
\* Drawing object is its stroke list m_strokes, kept as its length; neither the
\* page nor the document connects a slot to strokeAdded or strokeRemoved
DrawingAddStroke(p, i) ==
    /\ Objects(p)[i].type = "Drawing"
    /\ Objects(p)[i].content < MaxStrokes
    /\ Reorder(p, {[Objects(p) EXCEPT ![i].content = @ + 1]}, "addStroke",
               Objects(p)[i].ptr, 0)

\* DrawingObject::removeStroke(index), index in the code's 0-based numbering
DrawingRemoveStroke(p, i, index) ==
    /\ Objects(p)[i].type = "Drawing"
    /\ Reorder(p, {IF index >= 0 /\ index < Objects(p)[i].content
                   THEN [Objects(p) EXCEPT ![i].content = @ - 1]
                   ELSE Objects(p)}, "removeStroke", Objects(p)[i].ptr, index)

\* Object::setSize called directly on an object of the page: setBounds, whose
\* boundsChanged reaches Page::onObjectBoundsChanged, which does nothing
ObjectSetSizeTo(p, i, width, height) ==
    Reorder(p, {[Objects(p) EXCEPT ![i].w = width, ![i].h = height]}, "setObjectSize",
            Objects(p)[i].ptr, height)

\* The same with the width kept
ObjectSetSize(p, i, height) == ObjectSetSizeTo(p, i, Objects(p)[i].w, height)

\* Object::scale(factor) on the i-th object of page p
ObjectScale(p, i, factor) ==
    Reorder(p, {[Objects(p) EXCEPT ![i] = Scale(@, factor)]}, "scale",
            Objects(p)[i].ptr, factor)

\* Page::duplicateSelectedObjects; every addObject of a clone emits objectAdded.
\* The call is made while it constructs no entity beyond maxRef and leaves at
\* most maxObjects objects on the page.
PageDuplicateSelectedWithin(p, maxRef, maxObjects) ==
    LET n == Len(SelectSeq(Objects(p), IsSelected)) IN
    /\ nextRef + n - 1 <= maxRef
    /\ Len(Objects(p)) + n <= maxObjects
    /\ \A k \in 1..Len(Objects(p)) : Objects(p)[k].selected => Objects(p)[k].x + 20 <= MaxCoord
    /\ \E s \in DuplicateSelectedOutcomes(Objects(p), nextRef) :
           m_pages' = [m_pages EXCEPT ![p].objects = s]
    /\ nextRef' = nextRef + n
    /\ m_modified' = (m_modified \/ n > 0)
    /\ m_modifiedDate' = IF n > 0 THEN now ELSE m_modifiedDate
    /\ UNCHANGED <<m_id, m_description, m_createdDate, m_title, m_tags, m_currentPage, m_links>>
    /\ Called("duplicateSelectedObjects", n, 0)

PageDuplicateSelectedObjects(p) == PageDuplicateSelectedWithin(p, MaxRef, MaxObjects)

\* Page::objectAt(point) on page p: a query, with its result in ret
PageObjectAt(p, px, py) ==
    /\ last' = [op |-> "objectAt", a |-> px, b |-> py, c |-> p,
                ret |-> ObjectAt(Objects(p), px, py), events |-> <<>>, text |-> <<>>]
    /\ UNCHANGED <<drawingObject, now>>
    /\ UNCHANGED <<docVars, nextRef, storeVars, fileVars, noteVars>>

\* Page::clearObjects: emits objectSelectionChanged only
PageClearObjects(p) ==
    Reorder(p, {<<>>}, "clearObjects", 0, 0)

\* Page::setSize: emits sizeChanged, to which the document connects no slot
PageSetSize(p, width, height) ==
    /\ m_pages' = [m_pages EXCEPT ![p].width = width, ![p].height = height]
    /\ UNCHANGED <<m_id, m_description, m_createdDate, m_title, m_tags, m_currentPage, m_modified, m_modifiedDate, m_links, nextRef>>
    /\ Called("setSize", width, height)

\* Page::setBackgroundColor: emits backgroundColorChanged, likewise unconnected
PageSetBackgroundColor(p, color) ==
    /\ m_pages' = [m_pages EXCEPT ![p].bg = color]
    /\ UNCHANGED <<m_id, m_description, m_createdDate, m_title, m_tags, m_currentPage, m_modified, m_modifiedDate, m_links, nextRef>>
    /\ Called("setBackgroundColor", 0, 0)

\* Document::setModified
DocSetModified(modified) ==
    /\ m_modified' = modified
    /\ UNCHANGED m_modifiedDate
    /\ UNCHANGED <<m_id, m_description, m_createdDate, m_title, m_tags, m_pages, m_currentPage, m_links, nextRef>>
    /\ Called("setModified", IF modified THEN 1 ELSE 0, 0)

(***************************************************************************)
(* Page serialization (page.cpp)                                           *)
(***************************************************************************)
\* Page::toJson
PageToJson(pg) ==
    [id |-> pg.id, title |-> pg.title, width |-> pg.width, height |-> pg.height,
     bg |-> pg.bg, objects |-> [k \in 1..Len(pg.objects) |-> ObjectToJson(pg.objects[k])]]

\* The object loop of Page::fromJson: Image and PDF entries are skipped, a Text or
\* Drawing entry makes a new object, loads it and adds it with addObject
RECURSIVE LoadObjects(_, _, _)
LoadObjects(objs, jsons, ref) ==
    IF jsons = <<>>
    THEN {objs}
    ELSE IF Head(jsons).type \in {"Image", "PDF"}
         THEN LoadObjects(objs, Tail(jsons), ref)
         ELSE UNION {LoadObjects(s, Tail(jsons), ref + 1) :
                        s \in AddObjectOutcomes(objs,
                                 ObjectFromJson(NewObject(ref, Head(jsons).type, 0), Head(jsons)))}

Loadable(json) == json.type \notin {"Image", "PDF"}

\* The objects Page::fromJson constructs for a page JSON
LoadCount(json) == Len(SelectSeq(json.objects, Loadable))

\* Page::fromJson on page pg: id, title, size and background are overwritten,
\* the objects cleared and reloaded; the new objects take the refs from ref on
PageFromJsonOutcomes(pg, json, ref) ==
    {[pg EXCEPT !.id = json.id, !.title = json.title, !.width = json.width,
                !.height = json.height, !.bg = json.bg, !.objects = s] :
        s \in LoadObjects(<<>>, json.objects, ref)}

\* Page::clone: make_unique<Page>(), then fromJson(this->toJson())
PageCloneOutcomes(pg, ref) ==
    PageFromJsonOutcomes(NewPage(ref, <<"Untitled Page">>), PageToJson(pg), ref + 1)

(***************************************************************************)
(* Document (document.cpp): the page list and the current page             *)
(***************************************************************************)
\* Document::pageAt(index), index 0-based: the page's ptr or Null
PageAt(pages, index) ==
    IF index >= 0 /\ index < Len(pages) THEN pages[index + 1].ptr ELSE Null

\* qBound(min, value, max)
QBound(min, value, max) == IF value < min THEN min ELSE IF value > max THEN max ELSE value

QMax(a, b) == IF a > b THEN a ELSE b

\* The current page after Document::addPage / insertPage of page
CurrentAfterAdd(current, page) == IF current = Null THEN page.ptr ELSE current

\* CurrentAfterRemove selecting the page after the removed one, not the one before
CurrentAfterRemoveNext(pagesAfter, current, page, index) ==
    IF current = page.ptr
    THEN IF pagesAfter = <<>> THEN Null ELSE PageAt(pagesAfter, index)
    ELSE current

\* CurrentAfterRemove without the update of the current page
CurrentAfterRemoveStale(pagesAfter, current, page, index) == current

\* The current page after Document::removePage(page) has removed the page from
\* the code's index: pagesAfter is m_pages after removeAt(index)
CurrentAfterRemove(pagesAfter, current, page, index) ==
    IF current = page.ptr
    THEN IF pagesAfter = <<>> THEN Null ELSE PageAt(pagesAfter, QMax(0, index - 1))
    ELSE current

\* Document::addPage(page) with a page the caller has just constructed
DocAddPage(title) ==
    /\ nextRef <= MaxRef
    /\ m_pages' = Append(m_pages, NewPage(nextRef, title))
    /\ m_currentPage' = CurrentAfterAdd(m_currentPage, NewPage(nextRef, title))
    /\ m_modified' = TRUE
    /\ m_modifiedDate' = now
    /\ nextRef' = nextRef + 1
    /\ UNCHANGED <<m_id, m_description, m_createdDate, m_title, m_tags, m_links>>
    /\ Called("addPage", nextRef, 0)

\* Document::createNewPage(title): an empty title becomes "Untitled Page"
DocCreateNewPage(title) ==
    LET page == NewPage(nextRef, IF title = <<>> THEN <<"Untitled Page">> ELSE title) IN
    /\ nextRef <= MaxRef
    /\ m_pages' = Append(m_pages, page)
    /\ m_currentPage' = CurrentAfterAdd(m_currentPage, page)
    /\ m_modified' = TRUE
    /\ m_modifiedDate' = now
    /\ nextRef' = nextRef + 1
    /\ UNCHANGED <<m_id, m_description, m_createdDate, m_title, m_tags, m_links>>
    /\ Called("createNewPage", nextRef, 0)

\* Document::insertPage(index, page) with a page the caller has just constructed
DocInsertPage(index, title) ==
    /\ nextRef <= MaxRef
    /\ m_pages' = InsertAt(m_pages, QBound(0, index, Len(m_pages)) + 1, NewPage(nextRef, title))
    /\ m_currentPage' = CurrentAfterAdd(m_currentPage, NewPage(nextRef, title))
    /\ m_modified' = TRUE
    /\ m_modifiedDate' = now
    /\ nextRef' = nextRef + 1
    /\ UNCHANGED <<m_id, m_description, m_createdDate, m_title, m_tags, m_links>>
    /\ Called("insertPage", nextRef, index)

\* Document::removePage(shared_ptr<Page>) of the page at position i of m_pages
DocRemovePage(i) ==
    LET page == m_pages[i]
        index == IndexOf(m_pages, page.ptr) - 1
        pagesAfter == RemoveAt(m_pages, index + 1)
    IN  /\ m_pages' = pagesAfter
        /\ m_currentPage' = CurrentAfterRemove(pagesAfter, m_currentPage, page, index)
        /\ m_modified' = TRUE
        /\ m_modifiedDate' = now
        /\ UNCHANGED <<m_id, m_description, m_createdDate, m_title, m_tags, m_links, nextRef>>
        /\ Called3("removePage", page.ptr, index, IF m_currentPage = page.ptr THEN 1 ELSE 0)

\* Document::removePage(int index): removePage(m_pages[index]) when in range
DocRemovePageAt(index) ==
    IF index >= 0 /\ index < Len(m_pages)
    THEN DocRemovePage(index + 1)
    ELSE /\ UNCHANGED <<docVars, nextRef>>
         /\ Called("removePageAt", index, 0)

\* Document::clearPages
DocClearPages ==
    /\ m_pages' = <<>>
    /\ m_currentPage' = Null
    /\ m_modified' = TRUE
    /\ m_modifiedDate' = now
    /\ UNCHANGED <<m_id, m_description, m_createdDate, m_title, m_tags, m_links, nextRef>>
    /\ Called("clearPages", 0, 0)

\* Document::movePage(fromIndex, toIndex)
DocMovePage(fromIndex, toIndex) ==
    /\ IF /\ fromIndex >= 0 /\ fromIndex < Len(m_pages)
          /\ toIndex >= 0 /\ toIndex < Len(m_pages)
          /\ fromIndex # toIndex
       THEN /\ m_pages' = Move(m_pages, fromIndex + 1, toIndex + 1)
            /\ m_modified' = TRUE
            /\ m_modifiedDate' = now
       ELSE UNCHANGED <<m_pages, m_modified, m_modifiedDate>>
    /\ UNCHANGED <<m_id, m_description, m_createdDate, m_title, m_tags, m_currentPage, m_links, nextRef>>
    /\ Called("movePage", fromIndex, toIndex)

\* Document::duplicatePage(index): the clone of m_pages[index], its title suffixed
\* with " (Copy)", goes to insertPage(index + 1, clone)
DocDuplicatePage(index) ==
    IF index >= 0 /\ index < Len(m_pages)
    THEN LET original == m_pages[index + 1] IN
         /\ nextRef + Len(original.objects) <= MaxRef
         /\ \E clone \in PageCloneOutcomes(original, nextRef) :
              LET page == [clone EXCEPT !.title = original.title \o <<" (Copy)">>] IN
              /\ m_pages' = InsertAt(m_pages, QBound(0, index + 1, Len(m_pages)) + 1, page)
              /\ m_currentPage' = CurrentAfterAdd(m_currentPage, page)
         /\ m_modified' = TRUE
         /\ m_modifiedDate' = now
         /\ nextRef' = nextRef + 1 + Len(original.objects)
         /\ UNCHANGED <<m_id, m_description, m_createdDate, m_title, m_tags, m_links>>
         /\ Called("duplicatePage", index, nextRef)
    ELSE /\ UNCHANGED <<docVars, nextRef>>
         /\ Called("duplicatePage", index, 0)

\* Document::setCurrentPage(int index): setCurrentPage(pageAt(index))
DocSetCurrentPageIndex(index) ==
    /\ m_currentPage' = PageAt(m_pages, index)
    /\ UNCHANGED <<m_id, m_description, m_createdDate, m_title, m_tags, m_pages, m_modified, m_modifiedDate, m_links, nextRef>>
    /\ Called("setCurrentPage", index, 0)

(***************************************************************************)
(* Document (document.cpp): title, tags and links                          *)
(***************************************************************************)
Contains(seq, e) == \E k \in 1..Len(seq) : seq[k] = e

\* Document::setDescription
DocSetDescription(description) ==
    /\ m_description' = description
    /\ m_modified' = (m_modified \/ m_description # description)
    /\ m_modifiedDate' = IF m_description # description THEN now ELSE m_modifiedDate
    /\ UNCHANGED <<m_id, m_createdDate, m_title, m_tags, m_pages, m_currentPage, m_links,
                   nextRef>>
    /\ Called("setDescription", 0, 0)

\* Time passes: QDateTime::currentDateTime() is later by one tick
ClockAdvance ==
    /\ now < MaxClock
    /\ now' = now + 1
    /\ last' = [op |-> "clock", a |-> now + 1, b |-> 0, c |-> 0, ret |-> Null,
                events |-> <<>>, text |-> <<>>]
    /\ UNCHANGED <<docVars, nextRef, storeVars, noteVars, fileVars, drawingObject>>

\* Document::setTitle
DocSetTitle(title) ==
    /\ m_title' = title
    /\ m_modified' = (m_modified \/ m_title # title)
    /\ m_modifiedDate' = IF m_title # title THEN now ELSE m_modifiedDate
    /\ UNCHANGED <<m_id, m_description, m_createdDate, m_tags, m_pages, m_currentPage, m_links, nextRef>>
    /\ Called("setTitle", 0, 0)

\* Document::addTag
DocAddTag(tag) ==
    /\ m_tags' = IF Contains(m_tags, tag) THEN m_tags ELSE Append(m_tags, tag)
    /\ m_modified' = (m_modified \/ ~Contains(m_tags, tag))
    /\ m_modifiedDate' = IF ~Contains(m_tags, tag) THEN now ELSE m_modifiedDate
    /\ UNCHANGED <<m_id, m_description, m_createdDate, m_title, m_pages, m_currentPage, m_links, nextRef>>
    /\ Called("addTag", 0, 0)

\* Document::removeTag
DocRemoveTag(tag) ==
    /\ m_tags' = RemoveAll(m_tags, tag)
    /\ m_modified' = (m_modified \/ Contains(m_tags, tag))
    /\ m_modifiedDate' = IF Contains(m_tags, tag) THEN now ELSE m_modifiedDate
    /\ UNCHANGED <<m_id, m_description, m_createdDate, m_title, m_pages, m_currentPage, m_links, nextRef>>
    /\ Called("removeTag", 0, 0)

\* Document::setTags: the list replaces m_tags as it is when it differs
DocSetTags(tags) ==
    /\ m_tags' = tags
    /\ m_modified' = (m_modified \/ m_tags # tags)
    /\ m_modifiedDate' = IF m_tags # tags THEN now ELSE m_modifiedDate
    /\ UNCHANGED <<m_id, m_description, m_createdDate, m_title, m_pages, m_currentPage, m_links, nextRef>>
    /\ Called("setTags", Len(tags), 0)

\* m_links.value(key): the list stored under key, empty when the key is absent
LinkList(links, key) == IF key \in DOMAIN links THEN links[key] ELSE <<>>

\* m_links[key] = list; the non-const QMap::operator[] inserts an absent key
PutLinks(links, key, list) ==
    [k \in (DOMAIN links) \cup {key} |-> IF k = key THEN list ELSE links[k]]

\* m_links after Document::addLink(fromPageId, toPageId)
LinksAfterAdd(links, from, to) ==
    IF ~Contains(LinkList(links, from), to)
    THEN PutLinks(links, from, Append(LinkList(links, from), to))
    ELSE PutLinks(links, from, LinkList(links, from))

\* LinksAfterRemove with the two page ids exchanged
LinksAfterRemoveSwapped(links, from, to) ==
    PutLinks(links, to, RemoveAll(LinkList(links, to), from))

\* m_links after Document::removeLink(fromPageId, toPageId)
LinksAfterRemove(links, from, to) ==
    PutLinks(links, from, RemoveAll(LinkList(links, from), to))

\* The keys of a QMap in iteration (ascending) order
RECURSIVE KeysInOrder(_)
KeysInOrder(keys) ==
    IF keys = {}
    THEN <<>>
    ELSE LET least == CHOOSE k \in keys : \A j \in keys : k <= j
         IN  <<least>> \o KeysInOrder(keys \ {least})

\* Document::getBacklinks(pageId): the keys whose list contains pageId
GetBacklinks(links, pageId) ==
    SelectSeq(KeysInOrder(DOMAIN links), LAMBDA k : Contains(links[k], pageId))

\* Document::addLink
DocAddLink(from, to) ==
    /\ m_links' = LinksAfterAdd(m_links, from, to)
    /\ m_modified' = (m_modified \/ ~Contains(LinkList(m_links, from), to))
    /\ m_modifiedDate' = IF ~Contains(LinkList(m_links, from), to) THEN now ELSE m_modifiedDate
    /\ UNCHANGED <<m_id, m_description, m_createdDate, m_title, m_tags, m_pages, m_currentPage, nextRef>>
    /\ Called("addLink", from, to)

\* Document::removeLink
DocRemoveLink(from, to) ==
    /\ m_links' = LinksAfterRemove(m_links, from, to)
    /\ m_modified' = (m_modified \/ Contains(LinkList(m_links, from), to))
    /\ m_modifiedDate' = IF Contains(LinkList(m_links, from), to) THEN now ELSE m_modifiedDate
    /\ UNCHANGED <<m_id, m_description, m_createdDate, m_title, m_tags, m_pages, m_currentPage, nextRef>>
    /\ Called("removeLink", from, to)

(***************************************************************************)
(* Document serialization (document.cpp).  The description and the two     *)
(* dates are part of the JSON but of none of the properties checked here;  *)
(* they are left out of the state.                                         *)
(***************************************************************************)
\* Document::toJson of a document with these fields
\* QDateTime::toString(Qt::ISODate) writes whole seconds; an invalid QDateTime
\* gives the empty string
InvalidDate == -1
IsoDate(t) == IF t < 0 THEN InvalidDate ELSE t \div TicksPerSecond

\* QDateTime::fromString(text, Qt::ISODate)
FromIsoDate(text) == IF text < 0 THEN InvalidDate ELSE text * TicksPerSecond

DocumentJson(id, title, tags, pages, links) ==
    [id |-> id, title |-> title, description |-> m_description,
     createdDate |-> IsoDate(m_createdDate), modifiedDate |-> IsoDate(m_modifiedDate),
     tags |-> tags,
     pages |-> [k \in 1..Len(pages) |-> PageToJson(pages[k])], links |-> links]

DocToJson == DocumentJson(m_id, m_title, m_tags, m_pages, m_links)

\* QJsonObject(): every read yields its default (empty string, empty array)
EmptyDocJson ==
    [id |-> Null, title |-> <<>>, description |-> <<>>, createdDate |-> InvalidDate,
     modifiedDate |-> InvalidDate, tags |-> <<>>, pages |-> <<>>, links |-> <<>>]

\* The page loop of Document::fromJson: make_shared<Page>(), fromJson, addPage
RECURSIVE LoadPages(_, _, _)
LoadPages(pages, jsons, ref) ==
    IF jsons = <<>>
    THEN {pages}
    ELSE UNION {LoadPages(Append(pages, pg), Tail(jsons), ref + 1 + LoadCount(Head(jsons))) :
                   pg \in PageFromJsonOutcomes(NewPage(ref, <<"Untitled Page">>),
                                               Head(jsons), ref + 1)}

\* The pages and objects Document::fromJson constructs
RECURSIVE RefsNeeded(_)
RefsNeeded(jsons) ==
    IF jsons = <<>> THEN 0 ELSE 1 + LoadCount(Head(jsons)) + RefsNeeded(Tail(jsons))

\* Document::fromJson: id, title, description, the dates, tags; clearPages();
\* every page loaded and added with addPage (the first becomes current); the
\* links; then m_modified = false, assigned without a signal: clearPages'
\* markAsModified is the last modifiedChanged.  clearPages and addPage call
\* markAsModified, whose updateModifiedDate() replaces the modifiedDate just read
\* by the current time.
DocFromJson(json) ==
    /\ nextRef + RefsNeeded(json.pages) - 1 <= MaxRef
    /\ m_id' = json.id
    /\ m_title' = json.title
    /\ m_tags' = json.tags
    /\ \E pages \in LoadPages(<<>>, json.pages, nextRef) :
          /\ m_pages' = pages
          /\ m_currentPage' = PageAt(pages, 0)
    /\ m_links' = json.links
    /\ m_description' = json.description
    /\ m_createdDate' = FromIsoDate(json.createdDate)
    /\ m_modifiedDate' = now
    /\ m_modified' = FALSE
    /\ nextRef' = nextRef + RefsNeeded(json.pages)
    /\ CalledOn("fromJson", 0, 0, 0, IF m_currentDocument # Null /\ ~m_modified
                                      THEN TRUE
                                      ELSE note_m_modified)

(***************************************************************************)
(* Storage: the SQLite database behind one connection                      *)
(***************************************************************************)
\* "INSERT OR REPLACE" into a table whose primary key is id
InsertOrReplace(rows, row) == {r \in rows : r.id # row.id} \cup {row}

\* QStringList::join(",")
RECURSIVE Join(_)
Join(list) ==
    IF Len(list) <= 1 THEN list ELSE <<Head(list), ",">> \o Join(Tail(list))

\* Storage::documentToBlob, Storage::pageToBlob: the compact JSON text
ToBlob(json) == [compact |-> json]

\* QJsonDocument::fromJson(blob).object()
FromBlob(blob) == blob.compact

\* The row saveDocument binds for the document
DocumentRow(id, title, tags, pages, links) ==
    [id |-> id, title |-> title, tags |-> Join(tags),
     data |-> ToBlob(DocumentJson(id, title, tags, pages, links))]

\* The row savePage binds for a page
PageRow(documentId, page) ==
    [id |-> page.id, document_id |-> documentId, title |-> page.title,
     data |-> ToBlob(PageToJson(page))]

\* The page loop of saveDocument: savePage for each page in order, until the
\* failAt-th write fails (no write fails when failAt is not an index)
RECURSIVE SavePages(_, _, _, _, _)
SavePages(rows, documentId, pages, k, failAt) ==
    IF k > Len(pages) \/ k = failAt
    THEN rows
    ELSE SavePages(InsertOrReplace(rows, PageRow(documentId, pages[k])),
                   documentId, pages, k + 1, failAt)

\* QSqlDatabase::transaction() on tables t with transaction tx: BEGIN, which
\* fails within a transaction
TransactionIn(t, tx, beginOk) == IF beginOk /\ tx = NoTx THEN <<t>> ELSE tx

\* QSqlDatabase::transaction(): BEGIN, which fails within a transaction
TxBaseAfterBegin(beginOk) == IF beginOk /\ txBase = NoTx THEN <<tables>> ELSE txBase

\* QSqlDatabase::rollback(): the tables as of BEGIN; without a transaction the
\* statements already executed stay
TablesAfterRollback(written, base) == IF base # NoTx THEN base[1] ELSE written

\* QSqlDatabase::commit(): ends the transaction unless COMMIT fails
TxBaseAfterCommit(base, commitOk) == IF commitOk THEN NoTx ELSE base

\* What the database file holds: uncommitted statements are not in it
Committed == IF txBase # NoTx THEN txBase[1] ELSE tables

\* A call on the storage, with its result
CalledStorage(op, a, ret) ==
    /\ last' = [op |-> op, a |-> a, b |-> 0, c |-> 0, ret |-> ret, events |-> <<>>,
                text |-> <<>>]
    /\ UNCHANGED <<drawingObject, now>>
    /\ UNCHANGED noteVars

\* A call on the storage whose argument is a text (a path, a title, a query)
CalledStorageText(op, text, ret) ==
    /\ last' = [op |-> op, a |-> 0, b |-> 0, c |-> 0, ret |-> ret, events |-> <<>>,
                text |-> text]
    /\ UNCHANGED <<drawingObject, now>>
    /\ UNCHANGED noteVars

\* emit databaseError(...)
DatabaseError == <<"databaseError">>

\* A call on the storage, with its result and the signals emitted inside it
CalledStorageEmit(op, a, ret, events) ==
    /\ last' = [op |-> op, a |-> a, b |-> 0, c |-> 0, ret |-> ret, events |-> events,
                text |-> <<>>]
    /\ UNCHANGED <<drawingObject, now>>
    /\ UNCHANGED noteVars

\* The same for a call whose argument is a text
CalledStorageTextEmit(op, text, ret, events) ==
    /\ last' = [op |-> op, a |-> 0, b |-> 0, c |-> 0, ret |-> ret, events |-> events,
                text |-> text]
    /\ UNCHANGED <<drawingObject, now>>
    /\ UNCHANGED noteVars

\* The path Storage::initialize opens: the default path for an empty argument
ResolvePath(databasePath) == IF databasePath = "" THEN DefaultPath ELSE databasePath

\* StorageInitialize without the test of m_initialized
StorageInitializeAlways(databasePath, openOk, setupOk) ==
    /\ LET swap == m_databasePath \notin {"", ResolvePath(databasePath)} IN
       /\ m_databasePath' = ResolvePath(databasePath)
       /\ tables' = IF swap THEN otherTables ELSE tables
       /\ otherTables' = IF swap THEN tables ELSE otherTables
       /\ dbOpen' = openOk
       /\ m_initialized' = (openOk /\ setupOk)
       /\ hist' = hist
       /\ CalledStorageTextEmit("initialize", <<databasePath>>, openOk /\ setupOk,
                                IF openOk /\ setupOk THEN <<>> ELSE DatabaseError)
    /\ UNCHANGED <<docVars, nextRef, txBase, backup>>

\* Storage::initialize(databasePath): a no-op when initialized; else m_databasePath
\* is set, addDatabase replaces the connection, open() may fail,
\* createTables()/migrateDatabase() may fail after the connection is open, and
\* only then m_initialized = true; each failure emits databaseError.  The
\* connection reads the file at the path.
StorageInitialize(databasePath, openOk, setupOk) ==
    /\ IF m_initialized
       THEN /\ UNCHANGED <<m_initialized, dbOpen, hist, tables, otherTables, m_databasePath>>
            /\ CalledStorageText("initialize", <<databasePath>>, TRUE)
       ELSE LET swap == m_databasePath \notin {"", ResolvePath(databasePath)} IN
            /\ m_databasePath' = ResolvePath(databasePath)
            /\ tables' = IF swap THEN otherTables ELSE tables
            /\ otherTables' = IF swap THEN tables ELSE otherTables
            /\ dbOpen' = openOk
            /\ m_initialized' = (openOk /\ setupOk)
            /\ hist' = IF openOk /\ setupOk /\ hist.saved # None
                       THEN [hist EXCEPT !.reopened = TRUE]
                       ELSE hist
            /\ CalledStorageTextEmit("initialize", <<databasePath>>, openOk /\ setupOk,
                                     IF openOk /\ setupOk THEN <<>> ELSE DatabaseError)
    /\ UNCHANGED <<docVars, nextRef, txBase, backup>>

\* Storage::close: closing the connection rolls an open transaction back
StorageClose ==
    /\ tables' = IF dbOpen THEN Committed ELSE tables
    /\ txBase' = IF dbOpen THEN NoTx ELSE txBase
    /\ dbOpen' = FALSE
    /\ m_initialized' = FALSE
    /\ CalledStorage("close", 0, Null)
    /\ UNCHANGED <<docVars, nextRef, hist, fileVars>>

\* Storage::isOpen()
IsOpen == dbOpen

\* Storage::saveDocument(document) for the open document.  The results of
\* beginTransaction() and commitTransaction() are not read.  A failing write of
\* the document row, and savePage for a failing write of a page row, emit
\* databaseError; the test of m_initialized returns without a signal.
StorageSaveDocument(beginOk, execOk, failAt, commitOk) ==
    /\ IF ~m_initialized
       THEN /\ UNCHANGED <<tables, txBase, hist>>
            /\ CalledStorage("saveDocument", m_id, FALSE)
       ELSE LET base == TxBaseAfterBegin(beginOk)
                row == DocumentRow(m_id, m_title, m_tags, m_pages, m_links)
                withDoc == [tables EXCEPT !.documents = InsertOrReplace(@, row)]
                withPages == [withDoc EXCEPT
                                 !.pages = SavePages(@, m_id, m_pages, 1, failAt)]
            IN  IF ~execOk
                THEN /\ tables' = TablesAfterRollback(tables, base)
                     /\ txBase' = NoTx
                     /\ hist' = [saved |-> None, reopened |-> FALSE]
                     /\ CalledStorageEmit("saveDocument", m_id, FALSE, DatabaseError)
                ELSE IF failAt \in 1..Len(m_pages)
                THEN /\ tables' = TablesAfterRollback(withPages, base)
                     /\ txBase' = NoTx
                     /\ hist' = [saved |-> None, reopened |-> FALSE]
                     /\ CalledStorageEmit("saveDocument", m_id, FALSE, DatabaseError)
                ELSE /\ tables' = withPages
                     /\ txBase' = TxBaseAfterCommit(base, commitOk)
                     /\ hist' = [saved |-> <<DocToJson>>, reopened |-> FALSE]
                     /\ CalledStorageEmit("saveDocument", m_id, TRUE, <<"documentSaved">>)
    /\ UNCHANGED <<docVars, nextRef, m_initialized, dbOpen, fileVars>>

\* Storage::documentFromBlob: Document(), then fromJson of the parsed blob; the
\* result is given by its content (its toJson) and its modified flag
DocumentFromBlob(blob, ref) ==
    LET json == FromBlob(blob) IN
    {[doc |-> [DocumentJson(json.id, json.title, json.tags, pages, json.links)
                  EXCEPT !.description = json.description,
                         !.createdDate = IsoDate(FromIsoDate(json.createdDate)),
                         !.modifiedDate = IsoDate(now)],
      modified |-> FALSE] : pages \in LoadPages(<<>>, json.pages, ref)}

\* Storage::loadDocument(documentId): nullptr when closed, for an empty id and,
\* with databaseError, when no row has the id; the objects it constructs are the
\* caller's
StorageLoadDocument(documentId) ==
    /\ LET rows == {r \in tables.documents : r.id = documentId} IN
       IF ~m_initialized \/ documentId = Null
       THEN CalledStorage("loadDocument", documentId, None)
       ELSE IF rows = {}
       THEN CalledStorageEmit("loadDocument", documentId, None, DatabaseError)
       ELSE \E r \in rows : \E document \in DocumentFromBlob(r.data, nextRef) :
                CalledStorage("loadDocument", documentId, <<document>>)
    /\ UNCHANGED <<docVars, nextRef, storeVars, fileVars>>

\* "text LIKE %query%" on texts and queries that are sequences of tokens
Like(text, query) ==
    \E i \in 1..(Len(text) - Len(query) + 1) : SubSeq(text, i, i + Len(query) - 1) = query

\* The ids of rows as a QStringList, in the order the SELECT yields them
Listings(rows) ==
    LET ids == {r.id : r \in rows} IN
    {list \in [1..Cardinality(ids) -> ids] : \A i, j \in DOMAIN list : list[i] = list[j] => i = j}

\* Storage::loadDocumentByTitle(title): nullptr when closed, for an empty title
\* and, with databaseError, when no row has the title
StorageLoadDocumentByTitle(title) ==
    /\ LET rows == {r \in tables.documents : r.title = title} IN
       IF ~m_initialized \/ title = <<>>
       THEN CalledStorageText("loadDocumentByTitle", title, None)
       ELSE IF rows = {}
       THEN CalledStorageTextEmit("loadDocumentByTitle", title, None, DatabaseError)
       ELSE \E r \in rows : \E document \in DocumentFromBlob(r.data, nextRef) :
                CalledStorageText("loadDocumentByTitle", title, <<document>>)
    /\ UNCHANGED <<docVars, nextRef, storeVars, fileVars>>

\* Storage::savePage(documentId, page) for the p-th page of the document, or
\* for a null page when p = Null
StorageSavePage(documentId, p, execOk) ==
    /\ IF ~m_initialized \/ p = Null \/ ~execOk
       THEN /\ UNCHANGED tables
            /\ CalledStorageEmit("savePage", p, FALSE,
                                 IF m_initialized /\ p # Null THEN DatabaseError ELSE <<>>)
       ELSE /\ tables' = [tables EXCEPT
                             !.pages = InsertOrReplace(@, PageRow(documentId, m_pages[p]))]
            /\ CalledStorage("savePage", p, TRUE)
    /\ UNCHANGED <<docVars, nextRef, m_initialized, dbOpen, txBase, hist, fileVars>>

\* Storage::loadPage(pageId): nullptr when closed, for an empty id and when no row
\* has the id; else Page(), then fromJson of the parsed blob
StorageLoadPage(pageId) ==
    /\ LET rows == {r \in tables.pages : r.id = pageId} IN
       IF ~m_initialized \/ pageId = Null \/ rows = {}
       THEN CalledStorageEmit("loadPage", pageId, None,
                              IF m_initialized /\ pageId # Null THEN DatabaseError ELSE <<>>)
       ELSE \E r \in rows :
            \E page \in PageFromJsonOutcomes(NewPage(nextRef, <<"Untitled Page">>),
                                             FromBlob(r.data), nextRef + 1) :
                CalledStorage("loadPage", pageId, <<PageToJson(page)>>)
    /\ UNCHANGED <<docVars, nextRef, storeVars, fileVars>>

\* StorageDeletePage without the test of m_initialized
StorageDeletePageUnguarded(pageId, execOk) ==
    /\ IF pageId = Null \/ ~execOk
       THEN /\ UNCHANGED tables
            /\ CalledStorageEmit("deletePage", pageId, FALSE,
                                 IF pageId # Null THEN DatabaseError ELSE <<>>)
       ELSE /\ tables' = [tables EXCEPT !.pages = {r \in @ : r.id # pageId}]
            /\ CalledStorage("deletePage", pageId, TRUE)
    /\ UNCHANGED <<docVars, nextRef, m_initialized, dbOpen, txBase, hist, fileVars>>

\* Storage::deletePage(pageId): false when closed and for an empty id
StorageDeletePage(pageId, execOk) ==
    /\ IF ~m_initialized \/ pageId = Null \/ ~execOk
       THEN /\ UNCHANGED tables
            /\ CalledStorageEmit("deletePage", pageId, FALSE,
                                 IF m_initialized /\ pageId # Null THEN DatabaseError ELSE <<>>)
       ELSE /\ tables' = [tables EXCEPT !.pages = {r \in @ : r.id # pageId}]
            /\ CalledStorage("deletePage", pageId, TRUE)
    /\ UNCHANGED <<docVars, nextRef, m_initialized, dbOpen, txBase, hist, fileVars>>

\* Storage::listDocuments: the ids of all documents rows; empty when closed and
\* when the query fails
StorageListDocuments(execOk) ==
    /\ IF ~m_initialized \/ ~execOk
       THEN CalledStorageEmit("listDocuments", 0, <<>>,
                              IF m_initialized THEN DatabaseError ELSE <<>>)
       ELSE \E list \in Listings(tables.documents) : CalledStorage("listDocuments", 0, list)
    /\ UNCHANGED <<docVars, nextRef, storeVars, fileVars>>

\* Storage::searchDocuments(query): the ids of the rows whose title or tags
\* contain the query (the description column is always empty here); empty when
\* closed, for an empty query and when the query fails
StorageSearchDocuments(query, execOk) ==
    /\ IF ~m_initialized \/ query = <<>> \/ ~execOk
       THEN CalledStorageTextEmit("searchDocuments", query, <<>>,
                                  IF m_initialized /\ query # <<>> THEN DatabaseError ELSE <<>>)
       ELSE \E list \in Listings({r \in tables.documents :
                                     Like(r.title, query) \/ Like(r.tags, query)}) :
                CalledStorageText("searchDocuments", query, list)
    /\ UNCHANGED <<docVars, nextRef, storeVars, fileVars>>

\* Storage::findDocumentsByTag(tag): the ids of the rows whose tags contain tag
StorageFindDocumentsByTag(tag, execOk) ==
    /\ IF ~m_initialized \/ tag = <<>> \/ ~execOk
       THEN CalledStorageTextEmit("findDocumentsByTag", tag, <<>>,
                                  IF m_initialized /\ tag # <<>> THEN DatabaseError ELSE <<>>)
       ELSE \E list \in Listings({r \in tables.documents : Like(r.tags, tag)}) :
                CalledStorageText("findDocumentsByTag", tag, list)
    /\ UNCHANGED <<docVars, nextRef, storeVars, fileVars>>

\* Storage::getDocumentCount: SELECT COUNT(*) FROM documents, 0 when closed
GetDocumentCount == IF m_initialized THEN Cardinality(tables.documents) ELSE 0

\* Storage::createBackup(backupPath): QFile::copy of the database file, which
\* holds the committed rows, and which fails when the backup file exists
StorageCreateBackup(copyOk) ==
    /\ IF ~m_initialized \/ backup # NoFile \/ ~copyOk
       THEN /\ UNCHANGED backup
            /\ CalledStorage("createBackup", 0, FALSE)
       ELSE /\ backup' = <<Committed>>
            /\ CalledStorage("createBackup", 0, TRUE)
    /\ UNCHANGED <<docVars, nextRef, storeVars, m_databasePath, otherTables>>

\* Storage::restoreFromBackup(backupPath): false when the backup is missing; else
\* close(), QFile::remove of the database file, QFile::copy of the backup to
\* m_databasePath (which fails when the file was not removed, and for an empty
\* path) and, after a copy, initialize(m_databasePath), whose result is not read
\* and which emits databaseError when it fails; no other step emits a signal
StorageRestoreFromBackup(removeOk, copyOk, openOk, setupOk) ==
    /\ IF backup = NoFile
       THEN /\ UNCHANGED <<m_initialized, dbOpen, tables, txBase, hist>>
            /\ CalledStorage("restoreFromBackup", 0, FALSE)
       ELSE LET closed == IF dbOpen THEN Committed ELSE tables
                success == removeOk /\ copyOk /\ m_databasePath # ""
            IN  /\ tables' = IF success THEN backup[1]
                             ELSE IF removeOk THEN EmptyTables
                             ELSE closed
                /\ txBase' = IF dbOpen THEN NoTx ELSE txBase
                /\ dbOpen' = (success /\ openOk)
                /\ m_initialized' = (success /\ openOk /\ setupOk)
                /\ hist' = [saved |-> None, reopened |-> FALSE]
                /\ CalledStorageEmit("restoreFromBackup", 0, success,
                                     IF success /\ ~(openOk /\ setupOk)
                                     THEN DatabaseError
                                     ELSE <<>>)
    /\ UNCHANGED <<docVars, nextRef, fileVars>>

\* What the environment does to one deleteDocument: BEGIN, the two DELETE
\* statements and COMMIT succeed or fail
DeleteInputs == [beginOk : BOOLEAN, pagesOk : BOOLEAN, docOk : BOOLEAN, commitOk : BOOLEAN]

\* Storage::deleteDocument(documentId) on tables t with transaction tx of an
\* initialized storage: pages first, then the document; the results of
\* beginTransaction() and commitTransaction() are not read
DeleteRun(t, tx, documentId, in) ==
    LET base == TransactionIn(t, tx, in.beginOk)
        withoutPages == [t EXCEPT !.pages = {r \in @ : r.document_id # documentId}]
        without == [withoutPages EXCEPT !.documents = {r \in @ : r.id # documentId}]
    IN  IF ~in.pagesOk
        THEN [ret |-> FALSE, tables |-> TablesAfterRollback(t, base), txBase |-> NoTx,
              events |-> <<"deleteDocument", "beginTransaction", "rollbackTransaction",
                           "databaseError">>]
        ELSE IF ~in.docOk
        THEN [ret |-> FALSE, tables |-> TablesAfterRollback(withoutPages, base),
              txBase |-> NoTx,
              events |-> <<"deleteDocument", "beginTransaction", "rollbackTransaction",
                           "databaseError">>]
        ELSE [ret |-> TRUE, tables |-> without,
              txBase |-> TxBaseAfterCommit(base, in.commitOk),
              events |-> <<"deleteDocument", "beginTransaction", "commitTransaction",
                           "documentDeleted">>]

\* Storage::deleteDocument(documentId): false when closed and for an empty id
StorageDeleteDocument(documentId, in) ==
    /\ IF ~m_initialized \/ documentId = Null
       THEN /\ UNCHANGED <<tables, txBase, hist>>
            /\ CalledStorage("deleteDocument", documentId, FALSE)
       ELSE LET d == DeleteRun(tables, txBase, documentId, in) IN
            /\ tables' = d.tables
            /\ txBase' = d.txBase
            /\ hist' = [saved |-> None, reopened |-> FALSE]
            /\ CalledStorageEmit("deleteDocument", documentId, d.ret,
                                 IF d.ret THEN <<"documentDeleted">> ELSE DatabaseError)
    /\ UNCHANGED <<docVars, nextRef, m_initialized, dbOpen, fileVars>>

(***************************************************************************)
(* Note (note.cpp): the coordinator of the current document and the        *)
(* storage.  Storage::databaseError reaches Note::onStorageError, which    *)
(* emits storageError; with MainWindow connected, onStorageError shows a   *)
(* modal QMessageBox, whose event loop delivers the autosave timer's       *)
(* timeout to Note::onAutoSaveTimeout while the emitting call is suspended.*)
(***************************************************************************)
\* What the environment does to one saveDocument: BEGIN, the document row write
\* and COMMIT succeed or fail, and the failAt-th page write fails
SaveInputs ==
    [beginOk : BOOLEAN, execOk : BOOLEAN, failAt : 0..MaxStorePages, commitOk : BOOLEAN]

\* A save in which nothing fails
AllOk == [beginOk |-> TRUE, execOk |-> TRUE, failAt |-> 0, commitOk |-> TRUE]

\* Storage::saveDocument of a document with row row and pages pages on tables t
\* with transaction tx, when no slot re-enters the storage: the result, the
\* tables, the transaction, and the calls and signals in order
SaveRunOf(t, tx, row, pages, in) ==
    LET base == TransactionIn(t, tx, in.beginOk)
        id == row.id
        withDoc == [t EXCEPT !.documents = InsertOrReplace(@, row)]
        withPages == [withDoc EXCEPT !.pages = SavePages(@, id, pages, 1, in.failAt)]
    IN  IF ~in.execOk
        THEN [ret |-> FALSE, tables |-> TablesAfterRollback(t, base), txBase |-> NoTx,
              events |-> <<"beginTransaction", "rollbackTransaction", "databaseError">>]
        ELSE IF in.failAt \in 1..Len(pages)
        THEN [ret |-> FALSE, tables |-> TablesAfterRollback(withPages, base), txBase |-> NoTx,
              events |-> <<"beginTransaction", "databaseError", "rollbackTransaction">>]
        ELSE [ret |-> TRUE, tables |-> withPages,
              txBase |-> TxBaseAfterCommit(base, in.commitOk),
              events |-> <<"beginTransaction", "commitTransaction", "documentSaved">>]

\* The same for the open document
SaveRun(t, tx, in) ==
    SaveRunOf(t, tx, DocumentRow(m_id, m_title, m_tags, m_pages, m_links), m_pages, in)

\* The slots run by one databaseError emitted on tables t with transaction tx:
\* MainWindow::onStorageError's dialog, in which the autosave timer fires (tick)
\* and Note::triggerAutoSave saves the modified current document
ErrorHandled(t, tx, tick, nested) ==
    IF tick /\ errorSlot /\ m_autoSaveEnabled /\ note_m_modified
    THEN LET r == SaveRun(t, tx, nested) IN
         [tables |-> r.tables, txBase |-> r.txBase, saved |-> r.ret,
          events |-> <<"triggerAutoSave", "saveCurrentDocument">> \o r.events
                     \o <<"autoSaveTriggered">>]
    ELSE [tables |-> t, txBase |-> tx, saved |-> FALSE, events |-> <<>>]

\* Note::saveCurrentDocument with Storage::saveDocument and the slots of its
\* signals: ret is the result, saved whether the document's and the
\* coordinator's modified flags were cleared by a save that returned true
SaveCurrentDocumentRun(in, tick, nested) ==
    IF m_currentDocument = Null \/ ~dbOpen
    THEN [ret |-> FALSE, tables |-> tables, txBase |-> txBase, saved |-> FALSE,
          events |-> <<"saveCurrentDocument">>]
    ELSE IF ~m_initialized
    THEN [ret |-> FALSE, tables |-> tables, txBase |-> txBase, saved |-> FALSE,
          events |-> <<"saveCurrentDocument", "saveDocument">>]
    ELSE
    LET base == TransactionIn(tables, txBase, in.beginOk)
        row == DocumentRow(m_id, m_title, m_tags, m_pages, m_links)
        withDoc == [tables EXCEPT !.documents = InsertOrReplace(@, row)]
        withPages == [withDoc EXCEPT !.pages = SavePages(@, m_id, m_pages, 1, in.failAt)]
    IN  IF ~in.execOk
        THEN LET h == ErrorHandled(TablesAfterRollback(tables, base), NoTx, tick, nested) IN
             [ret |-> FALSE, tables |-> h.tables, txBase |-> h.txBase, saved |-> h.saved,
              events |-> <<"saveCurrentDocument", "saveDocument", "beginTransaction",
                           "rollbackTransaction", "databaseError">> \o h.events]
        ELSE IF in.failAt \in 1..Len(m_pages)
        THEN LET h == ErrorHandled(withPages, base, tick, nested) IN
             [ret |-> FALSE, tables |-> TablesAfterRollback(h.tables, h.txBase),
              txBase |-> NoTx, saved |-> h.saved,
              events |-> <<"saveCurrentDocument", "saveDocument", "beginTransaction",
                           "databaseError">> \o h.events \o <<"rollbackTransaction">>]
        ELSE [ret |-> TRUE, tables |-> withPages,
              txBase |-> TxBaseAfterCommit(base, in.commitOk), saved |-> TRUE,
              events |-> <<"saveCurrentDocument", "saveDocument", "beginTransaction",
                           "commitTransaction", "documentSaved">>]

\* A call on the coordinator, with its result and the calls and signals inside it
CalledNote(op, a, ret, events) ==
    /\ last' = [op |-> op, a |-> a, b |-> 0, c |-> 0, ret |-> ret, events |-> events,
                text |-> <<>>]
    /\ UNCHANGED <<drawingObject, now>>

\* The storage after a run r of saveCurrentDocument
StoreAfter(r) ==
    /\ tables' = r.tables
    /\ txBase' = r.txBase
    /\ hist' = IF r.events = <<"saveCurrentDocument">> \/ ~m_initialized
               THEN hist
               ELSE [saved |-> IF r.saved THEN <<DocToJson>> ELSE None, reopened |-> FALSE]
    /\ UNCHANGED <<m_initialized, dbOpen, fileVars>>

\* Note::saveCurrentDocument: after a save that returned true,
\* m_currentDocument->setModified(false) and m_modified = false
NoteSaveCurrentDocument(in, tick, nested) ==
    LET r == SaveCurrentDocumentRun(in, tick, nested) IN
    /\ StoreAfter(r)
    /\ m_modified' = IF r.saved THEN FALSE ELSE m_modified
    /\ UNCHANGED m_modifiedDate
    /\ note_m_modified' = IF r.saved THEN FALSE ELSE note_m_modified
    /\ CalledNote("saveCurrentDocument", m_id, r.ret, r.events)
    /\ UNCHANGED <<m_id, m_description, m_createdDate, m_title, m_tags, m_pages, m_currentPage, m_links, nextRef,
                   m_currentDocument, m_autoSaveEnabled, errorSlot>>

\* NoteTriggerAutoSave without the test of the coordinator's modified flag
NoteTriggerAutoSaveAlways(in, tick, nested) ==
    LET r == SaveCurrentDocumentRun(in, tick, nested) IN
    /\ StoreAfter(r)
    /\ m_modified' = IF r.saved THEN FALSE ELSE m_modified
    /\ UNCHANGED m_modifiedDate
    /\ note_m_modified' = IF r.saved THEN FALSE ELSE note_m_modified
    /\ CalledNote("triggerAutoSave", 0, Null, r.events \o <<"autoSaveTriggered">>)
    /\ UNCHANGED <<m_id, m_description, m_createdDate, m_title, m_tags, m_pages, m_currentPage, m_links, nextRef,
                   m_currentDocument, m_autoSaveEnabled, errorSlot>>

\* NoteTriggerAutoSave without the save
NoteTriggerAutoSaveIdle(in, tick, nested) ==
    /\ CalledNote("triggerAutoSave", 0, Null, <<>>)
    /\ UNCHANGED <<docVars, nextRef, storeVars, fileVars, m_currentDocument,
                   note_m_modified, m_autoSaveEnabled, errorSlot>>

\* Note::triggerAutoSave, called directly or by the timer through
\* Note::onAutoSaveTimeout
NoteTriggerAutoSave(in, tick, nested) ==
    LET r == SaveCurrentDocumentRun(in, tick, nested) IN
    /\ IF note_m_modified /\ m_currentDocument # Null
       THEN /\ StoreAfter(r)
            /\ m_modified' = IF r.saved THEN FALSE ELSE m_modified
            /\ UNCHANGED m_modifiedDate
            /\ note_m_modified' = IF r.saved THEN FALSE ELSE note_m_modified
            /\ CalledNote("triggerAutoSave", 0, Null, r.events \o <<"autoSaveTriggered">>)
       ELSE /\ UNCHANGED <<storeVars, fileVars, m_modified, m_modifiedDate, note_m_modified>>
            /\ CalledNote("triggerAutoSave", 0, Null, <<>>)
    /\ UNCHANGED <<m_id, m_description, m_createdDate, m_title, m_tags, m_pages, m_currentPage, m_links, nextRef,
                   m_currentDocument, m_autoSaveEnabled, errorSlot>>

\* Note::enableAutoSave: starts or stops the timer
NoteEnableAutoSave(enable) ==
    /\ m_autoSaveEnabled' = enable
    /\ CalledNote("enableAutoSave", IF enable THEN 1 ELSE 0, Null, <<>>)
    /\ UNCHANGED <<docVars, nextRef, storeVars, fileVars, m_currentDocument,
                   note_m_modified, errorSlot>>

\* MainWindow: connect(m_note, &Note::storageError, this, &MainWindow::onStorageError)
MainWindowConnect ==
    /\ errorSlot' = TRUE
    /\ CalledNote("connect", 0, Null, <<>>)
    /\ UNCHANGED <<docVars, nextRef, storeVars, fileVars, m_currentDocument,
                   note_m_modified, m_autoSaveEnabled>>

\* Note::closeCurrentDocument as a run: the save of a modified current document,
\* then "documentClosed"
CloseCurrentDocumentRun(in, tick, nested) ==
    IF m_currentDocument = Null
    THEN [ret |-> FALSE, tables |-> tables, txBase |-> txBase, saved |-> FALSE,
          events |-> <<>>]
    ELSE IF note_m_modified
    THEN LET r == SaveCurrentDocumentRun(in, tick, nested) IN
         [r EXCEPT !.events = <<"closeCurrentDocument">> \o @ \o <<"documentClosed">>]
    ELSE [ret |-> FALSE, tables |-> tables, txBase |-> txBase, saved |-> FALSE,
          events |-> <<"closeCurrentDocument", "documentClosed">>]

\* The storage after a run r of closeCurrentDocument
StoreAfterClose(r) ==
    IF "saveCurrentDocument" \in {r.events[k] : k \in 1..Len(r.events)}
    THEN StoreAfter([r EXCEPT !.events = <<"saveCurrentDocument", "saveDocument">>])
    ELSE UNCHANGED <<storeVars, fileVars>>

\* Note::closeCurrentDocument
NoteCloseCurrentDocument(in, tick, nested) ==
    LET r == CloseCurrentDocumentRun(in, tick, nested) IN
    /\ StoreAfterClose(r)
    /\ m_modified' = IF r.saved THEN FALSE ELSE m_modified
    /\ UNCHANGED m_modifiedDate
    /\ m_currentDocument' = Null
    /\ note_m_modified' = IF m_currentDocument # Null THEN FALSE ELSE note_m_modified
    /\ CalledNote("closeCurrentDocument", 0, Null, r.events)
    /\ UNCHANGED <<m_id, m_description, m_createdDate, m_title, m_tags, m_pages, m_currentPage, m_links, nextRef,
                   m_autoSaveEnabled, errorSlot>>

\* Note::setCurrentDocument(document): the modified current document is saved,
\* then the coordinator's flag is the new document's
NoteSetCurrentDocument(document, in, tick, nested) ==
    IF m_currentDocument = document
    THEN /\ CalledNote("setCurrentDocument", document, Null, <<>>)
         /\ UNCHANGED <<docVars, nextRef, storeVars, fileVars, noteVars>>
    ELSE LET saves == m_currentDocument # Null /\ note_m_modified
             r == SaveCurrentDocumentRun(in, tick, nested)
         IN  /\ IF saves THEN StoreAfter(r) ELSE UNCHANGED <<storeVars, fileVars>>
             /\ m_modified' = IF saves /\ r.saved THEN FALSE ELSE m_modified
             /\ UNCHANGED m_modifiedDate
             /\ m_currentDocument' = document
             /\ note_m_modified' = IF document # Null THEN m_modified' ELSE FALSE
             /\ CalledNote("setCurrentDocument", document, Null,
                           IF saves THEN r.events ELSE <<>>)
             /\ UNCHANGED <<m_id, m_description, m_createdDate, m_title, m_tags, m_pages, m_currentPage, m_links, nextRef,
                            m_autoSaveEnabled, errorSlot>>

\* NoteDeleteDocument without the close of the current document
NoteDeleteDocumentNoClose(documentId, in, tick, nested, del) ==
    IF ~dbOpen
    THEN /\ CalledNote("deleteDocument", documentId, FALSE, <<>>)
         /\ UNCHANGED <<docVars, nextRef, storeVars, fileVars, noteVars>>
    ELSE LET d == IF ~m_initialized \/ documentId = Null
                  THEN [ret |-> FALSE, tables |-> tables, txBase |-> txBase,
                        events |-> <<"deleteDocument">>]
                  ELSE DeleteRun(tables, txBase, documentId, del)
         IN  /\ tables' = d.tables
             /\ txBase' = d.txBase
             /\ hist' = IF m_initialized
                        THEN [saved |-> None, reopened |-> FALSE]
                        ELSE hist
             /\ CalledNote("deleteDocument", documentId, d.ret, d.events)
             /\ UNCHANGED <<docVars, nextRef, m_initialized, dbOpen, fileVars, noteVars>>

\* Note::deleteDocument(documentId): false when the storage is not open; the
\* current document is closed first when it is the one deleted; the result is
\* Storage::deleteDocument's
NoteDeleteDocument(documentId, in, tick, nested, del) ==
    IF ~dbOpen
    THEN /\ CalledNote("deleteDocument", documentId, FALSE, <<>>)
         /\ UNCHANGED <<docVars, nextRef, storeVars, fileVars, noteVars>>
    ELSE LET closes == m_currentDocument # Null /\ m_id = documentId
             c == IF closes
                  THEN CloseCurrentDocumentRun(in, tick, nested)
                  ELSE [ret |-> FALSE, tables |-> tables, txBase |-> txBase,
                        saved |-> FALSE, events |-> <<>>]
             d == IF ~m_initialized \/ documentId = Null
                  THEN [ret |-> FALSE, tables |-> c.tables, txBase |-> c.txBase,
                        events |-> <<"deleteDocument">>]
                  ELSE DeleteRun(c.tables, c.txBase, documentId, del)
         IN  /\ tables' = d.tables
             /\ txBase' = d.txBase
             /\ hist' = IF m_initialized
                        THEN [saved |-> None, reopened |-> FALSE]
                        ELSE hist
             /\ m_modified' = IF closes /\ c.saved THEN FALSE ELSE m_modified
             /\ UNCHANGED m_modifiedDate
             /\ m_currentDocument' = IF closes THEN Null ELSE m_currentDocument
             /\ note_m_modified' = IF closes THEN FALSE ELSE note_m_modified
             /\ CalledNote("deleteDocument", documentId, d.ret, c.events \o d.events)
             /\ UNCHANGED <<m_id, m_description, m_createdDate, m_title, m_tags, m_pages, m_currentPage, m_links, nextRef,
                            m_initialized, dbOpen, fileVars, m_autoSaveEnabled, errorSlot>>

\* Note::duplicateDocument(documentId): the document is loaded and cloned
\* (Document(), fromJson(toJson()): the clone takes every entry of the JSON, the
\* id included), " (Copy)" is appended to the clone's title, the clone becomes
\* the current document (the modified current document is saved first, with
\* inputs in) and is saved with inputs copy.  The document of the state is the
\* clone afterwards; its pages take the refs from nextRef on.
NoteDuplicateDocument(documentId, in, copy) ==
    LET rows == {r \in tables.documents : r.id = documentId} IN
    IF ~dbOpen \/ ~m_initialized \/ documentId = Null \/ rows = {}
    THEN /\ CalledNote("duplicateDocument", documentId, FALSE,
                       IF dbOpen /\ m_initialized /\ documentId # Null
                       THEN <<"loadDocument">> \o DatabaseError
                       ELSE IF dbOpen THEN <<"loadDocument">> ELSE <<>>)
         /\ UNCHANGED <<docVars, nextRef, storeVars, fileVars, noteVars>>
    ELSE \E row \in rows :
         LET json == FromBlob(row.data)
             title == json.title \o <<" (Copy)">>
             saves == m_currentDocument # Null /\ note_m_modified
             first == IF saves
                      THEN SaveCurrentDocumentRun(in, FALSE, AllOk)
                      ELSE [ret |-> FALSE, tables |-> tables, txBase |-> txBase,
                            saved |-> FALSE, events |-> <<>>]
         IN  \E pages \in LoadPages(<<>>, json.pages, nextRef) :
             LET cloned == [DocumentJson(json.id, title, json.tags, pages, json.links)
                               EXCEPT !.description = json.description,
                                      !.createdDate = IsoDate(FromIsoDate(json.createdDate)),
                                      !.modifiedDate = IsoDate(now)]
                 row2 == [id |-> json.id, title |-> title, tags |-> Join(json.tags),
                          data |-> ToBlob(cloned)]
                 second == SaveRunOf(first.tables, first.txBase, row2, pages, copy)
             IN  /\ m_id' = json.id
                 /\ m_title' = title
                 /\ m_description' = json.description
                 /\ m_createdDate' = FromIsoDate(json.createdDate)
                 /\ m_modifiedDate' = now
                 /\ m_tags' = json.tags
                 /\ m_pages' = pages
                 /\ m_currentPage' = PageAt(pages, 0)
                 /\ m_links' = json.links
                 /\ m_modified' = ~second.ret
                 /\ nextRef' = nextRef + RefsNeeded(json.pages)
                 /\ m_currentDocument' = DocPtr
                 /\ note_m_modified' = ~second.ret
                 /\ tables' = second.tables
                 /\ txBase' = second.txBase
                 /\ hist' = [saved |-> IF second.ret THEN <<cloned>> ELSE None,
                             reopened |-> FALSE]
                 /\ CalledNote("duplicateDocument", documentId, second.ret,
                               <<"loadDocument">> \o first.events
                                   \o <<"saveCurrentDocument", "saveDocument">>
                                   \o second.events)
                 /\ UNCHANGED <<m_initialized, dbOpen, fileVars, m_autoSaveEnabled,
                                errorSlot>>

(***************************************************************************)
(* Specifications                                                          *)
(***************************************************************************)
Layers == 0..MaxLayer
PageIndexes == 1..Len(m_pages)
ObjectIndexes(p) == 1..Len(Objects(p))

\* SpecLayer: one page, its objects' layers, visibility and z-order.
NextLayer ==
    \/ \E p \in PageIndexes, layer \in Layers : PageAddObject(p, "Text", layer)
    \/ \E p \in PageIndexes : \E index \in 0..Len(Objects(p)) : PageRemoveObjectAt(p, index)
    \/ \E p \in PageIndexes : \E i \in ObjectIndexes(p) : PageRemoveObject(p, i)
    \/ \E p \in PageIndexes : \E i \in ObjectIndexes(p) : PageBringToFront(p, i)
    \/ \E p \in PageIndexes : \E i \in ObjectIndexes(p) : PageSendToBack(p, i)
    \/ \E p \in PageIndexes : \E i \in ObjectIndexes(p) : PageBringForward(p, i)
    \/ \E p \in PageIndexes : \E i \in ObjectIndexes(p) : PageSendBackward(p, i)
    \/ \E p \in PageIndexes : \E i \in ObjectIndexes(p) :
           \E layer \in Layers : PageSetObjectLayer(p, i, layer)
    \/ \E p \in PageIndexes : \E i \in ObjectIndexes(p) :
           \E layer \in Layers : ObjectSetLayer(p, i, layer)
    \/ \E p \in PageIndexes : \E i \in ObjectIndexes(p) :
           \E visible \in BOOLEAN : ObjectSetVisible(p, i, visible)

SpecLayer == Init /\ [][NextLayer]_vars

\* SpecDup: one page, selection and duplication of its Text and Drawing objects.
NextDup ==
    \/ \E p \in PageIndexes, type \in {"Text", "Drawing"} : PageAddObject(p, type, 0)
    \/ \E p \in PageIndexes : \E i \in ObjectIndexes(p) : PageRemoveObject(p, i)
    \/ \E p \in PageIndexes : \E i \in ObjectIndexes(p) : PageSelectObject(p, i)
    \/ \E p \in PageIndexes : \E i \in ObjectIndexes(p) : PageDeselectObject(p, i)
    \/ \E p \in PageIndexes : PageSelectAll(p)
    \/ \E p \in PageIndexes : PageClearSelection(p)
    \/ \E p \in PageIndexes : \E i \in ObjectIndexes(p) : TextSetContent(p, i, 1)
    \/ \E p \in PageIndexes : PageMoveSelectedObjects(p, 20, 20)
    \/ \E p \in PageIndexes : PageDuplicateSelectedObjects(p)

SpecDup == Init /\ [][NextDup]_vars

\* Objects of one page and their clones: add, select, duplicate the selection,
\* change a content
NextClone ==
    \/ \E p \in PageIndexes, type \in {"Text", "Drawing"} :
           nextRef <= MaxCloneRef /\ PageAddObject(p, type, 0)
    \/ \E p \in PageIndexes : \E i \in ObjectIndexes(p) : PageSelectObject(p, i)
    \/ \E p \in PageIndexes : nextRef <= MaxCloneRef + 1 /\ PageDuplicateSelectedObjects(p)
    \/ \E p \in PageIndexes : \E i \in ObjectIndexes(p) : \E content \in {0, 1} :
           TextSetContent(p, i, content)
SpecClone == Init /\ [][NextClone]_vars

\* SpecEdit: one page of a document whose modified flag the coordinator clears;
\* the page and its Text objects are edited.
NextEdit ==
    \/ \E p \in PageIndexes : Len(Objects(p)) < 2 /\ PageAddObject(p, "Text", 0)
    \/ \E p \in PageIndexes : \E i \in ObjectIndexes(p) : PageSelectObject(p, i)
    \/ \E p \in PageIndexes : \E i \in ObjectIndexes(p) : PageDeselectObject(p, i)
    \/ \E p \in PageIndexes : PageMoveSelectedObjects(p, 20, 20)
    \/ \E p \in PageIndexes : \E i \in ObjectIndexes(p) : ObjectMoveBy(p, i, 20, 20)
    \/ \E p \in PageIndexes : \E i \in ObjectIndexes(p) :
           \E content \in {0, 1} : TextSetContent(p, i, content)
    \/ \E p \in PageIndexes : \E i \in ObjectIndexes(p) :
           \E layer \in {0, 1} : ObjectSetLayer(p, i, layer)
    \/ \E p \in PageIndexes : \E i \in ObjectIndexes(p) :
           \E visible \in BOOLEAN : ObjectSetVisible(p, i, visible)
    \/ \E p \in PageIndexes : \E size \in {<<800, 600>>, <<1024, 768>>} :
           PageSetSize(p, size[1], size[2])
    \/ \E p \in PageIndexes : \E color \in {"white", "yellow"} :
           PageSetBackgroundColor(p, color)
    \/ \E p \in PageIndexes : PageClearObjects(p)
    \/ DocSetModified(FALSE)

SpecEdit == Init /\ [][NextEdit]_vars

\* SpecDoc: the structural operations on a document's page list.
Titles == {<<>>, <<"Notes">>}

NextDoc ==
    \/ \E title \in Titles : Len(m_pages) < MaxPages /\ nextRef <= MaxDocRef /\ DocCreateNewPage(title)
    \/ Len(m_pages) < MaxPages /\ nextRef <= MaxDocRef /\ DocAddPage(<<"Notes">>)
    \/ \E index \in 0..MaxPages : Len(m_pages) < MaxPages /\ nextRef <= MaxDocRef /\ DocInsertPage(index, <<"Notes">>)
    \/ \E i \in PageIndexes : DocRemovePage(i)
    \/ \E index \in 0..MaxPages : DocRemovePageAt(index)
    \/ DocClearPages
    \/ \E fromIndex, toIndex \in 0..MaxPages : DocMovePage(fromIndex, toIndex)
    \/ \E index \in 0..MaxPages : Len(m_pages) < MaxPages /\ nextRef <= MaxDocRef /\ DocDuplicatePage(index)
    \/ \E index \in 0..MaxPages : DocSetCurrentPageIndex(index)
    \/ \E json \in {DocToJson, EmptyDocJson} : DocFromJson(json)

SpecDoc == Init /\ [][NextDoc]_vars

\* SpecLinks: the link table of a document.
LinkIds == 1..MaxLinkId

NextLinks ==
    \/ \E from, to \in LinkIds : DocAddLink(from, to)
    \/ \E from, to \in LinkIds : DocRemoveLink(from, to)

SpecLinks == Init /\ [][NextLinks]_vars

\* SpecUnlink: the link table of a document whose modified flag is set and
\* cleared, as a save clears it.
NextUnlink ==
    \/ \E from, to \in LinkIds : DocAddLink(from, to)
    \/ \E from, to \in LinkIds : DocRemoveLink(from, to)
    \/ \E modified \in BOOLEAN : DocSetModified(modified)

SpecUnlink == Init /\ [][NextUnlink]_vars

\* SpecStore: a document edited and saved to a storage that is opened, closed
\* and read back; BEGIN, a statement or COMMIT may fail.
NextStore ==
    \/ \E openOk, setupOk \in BOOLEAN : StorageInitialize("", openOk, setupOk)
    \/ StorageClose
    \/ \E beginOk, execOk, commitOk \in BOOLEAN : \E failAt \in 0..MaxStorePages :
           StorageSaveDocument(beginOk, execOk, failAt, commitOk)
    \/ \E documentId \in {Null, m_id} : StorageLoadDocument(documentId)
    \/ DocAddTag("work")
    \/ Len(m_pages) < MaxStorePages /\ nextRef <= MaxStoreRef /\ DocCreateNewPage(<<"Notes">>)
    \/ \E i \in PageIndexes : DocRemovePage(i)
    \/ \E index \in 0..MaxStorePages :
           Len(m_pages) < MaxStorePages /\ nextRef <= MaxStoreRef /\ DocDuplicatePage(index)

SpecStore == Init /\ [][NextStore]_vars

\* The inputs of the save a call of the coordinator makes in this state, when it
\* makes one
SaveInputsIf(saves) ==
    IF saves /\ m_currentDocument # Null /\ m_initialized
    THEN [beginOk : BOOLEAN, execOk : BOOLEAN, failAt : 0..Len(m_pages), commitOk : BOOLEAN]
    ELSE {AllOk}

\* The inputs of the delete a call makes in this state, when it makes one
DeleteInputsIf(deletes) ==
    IF deletes
    THEN DeleteInputs
    ELSE {[beginOk |-> TRUE, pagesOk |-> TRUE, docOk |-> TRUE, commitOk |-> TRUE]}

\* The autosave timer can fire in the error dialog when it runs and the dialog
\* is connected
TickInputs == IF errorSlot /\ m_autoSaveEnabled THEN BOOLEAN ELSE {FALSE}

\* The inputs of the save made by a timer tick inside the error dialog
NestedInputs(tick) ==
    IF tick
    THEN [beginOk : {TRUE}, execOk : BOOLEAN, failAt : {0}, commitOk : BOOLEAN]
    ELSE {AllOk}

\* The coordinator with its document and its storage: open and close, connect
\* the error dialog, autosave, save, close and delete, and edits of the document
NextNote ==
    \/ \E openOk \in BOOLEAN, setupOk \in BOOLEAN : StorageInitialize("", openOk, setupOk)
    \/ StorageClose
    \/ MainWindowConnect
    \/ \E enable \in BOOLEAN : NoteEnableAutoSave(enable)
    \/ \E document \in {Null, DocPtr}, in \in SaveInputsIf(note_m_modified), tick \in TickInputs :
           \E nested \in NestedInputs(tick) :
               NoteSetCurrentDocument(document, in, tick, nested)
    \/ \E in \in SaveInputsIf(TRUE), tick \in TickInputs :
           \E nested \in NestedInputs(tick) :
               NoteSaveCurrentDocument(in, tick, nested)
    \/ \E in \in SaveInputsIf(note_m_modified), tick \in TickInputs :
           \E nested \in NestedInputs(tick) :
               NoteCloseCurrentDocument(in, tick, nested)
    \/ \E in \in SaveInputsIf(note_m_modified), tick \in TickInputs :
           \E nested \in NestedInputs(tick) :
               NoteTriggerAutoSave(in, tick, nested)
    \/ \E documentId \in {Null, m_id} :
           \E in \in SaveInputsIf(note_m_modified /\ documentId = m_id),
              del \in DeleteInputsIf(m_initialized /\ documentId # Null) :
               NoteDeleteDocument(documentId, in, FALSE, AllOk, del)
    \/ DocAddTag("work")
    \/ DocRemoveTag("work")
SpecNote == Init /\ [][NextNote]_vars

\* The storage alone: every public operation on the document and its pages, on
\* an open and on a closed storage
Queries == {<<>>, <<"work">>}
NextOps ==
    \/ \E databasePath \in {"", "other.db"}, openOk \in BOOLEAN, setupOk \in BOOLEAN :
           StorageInitialize(databasePath, openOk, setupOk)
    \/ StorageClose
    \/ \E execOk \in BOOLEAN, failAt \in 0..Len(m_pages) :
           StorageSaveDocument(TRUE, execOk, failAt, TRUE)
    \/ \E documentId \in {Null, m_id} : StorageLoadDocument(documentId)
    \/ \E title \in {<<>>, m_title} : StorageLoadDocumentByTitle(title)
    \/ \E documentId \in {Null, m_id}, pagesOk \in BOOLEAN, docOk \in BOOLEAN :
           StorageDeleteDocument(documentId, [beginOk |-> TRUE, pagesOk |-> pagesOk,
                                              docOk |-> docOk, commitOk |-> TRUE])
    \/ \E p \in {Null} \cup PageIndexes, execOk \in BOOLEAN : StorageSavePage(m_id, p, execOk)
    \/ \E pageId \in {Null} \cup {m_pages[p].id : p \in PageIndexes} : StorageLoadPage(pageId)
    \/ \E pageId \in {Null} \cup {m_pages[p].id : p \in PageIndexes}, execOk \in BOOLEAN :
           StorageDeletePage(pageId, execOk)
    \/ \E execOk \in BOOLEAN : StorageListDocuments(execOk)
    \/ \E query \in Queries, execOk \in BOOLEAN : StorageSearchDocuments(query, execOk)
    \/ \E tag \in Queries, execOk \in BOOLEAN : StorageFindDocumentsByTag(tag, execOk)
    \/ \E copyOk \in BOOLEAN : StorageCreateBackup(copyOk)
    \/ DocAddTag("work")
SpecOps == Init /\ [][NextOps]_vars

\* The storage and its backup file: open and close, saves and deletes of the
\* document, backup and restore
NextBackup ==
    \/ \E openOk \in BOOLEAN, setupOk \in BOOLEAN : StorageInitialize("", openOk, setupOk)
    \/ StorageClose
    \/ \E in \in [beginOk : BOOLEAN, execOk : BOOLEAN, failAt : 0..Len(m_pages), commitOk : BOOLEAN] :
           StorageSaveDocument(in.beginOk, in.execOk, in.failAt, in.commitOk)
    \/ \E documentId \in {Null, m_id}, in \in DeleteInputs : StorageDeleteDocument(documentId, in)
    \/ \E copyOk \in BOOLEAN : StorageCreateBackup(copyOk)
    \/ \E removeOk \in BOOLEAN, copyOk \in BOOLEAN, openOk \in BOOLEAN, setupOk \in BOOLEAN :
           StorageRestoreFromBackup(removeOk, copyOk, openOk, setupOk)
    \/ DocAddTag("work")
    \/ DocRemoveTag("work")
SpecBackup == Init /\ [][NextBackup]_vars

\* Calls with indexes in and out of range: the pages of a document, the objects
\* of a page and the strokes of a Drawing object; the coordinator's
\* setModified(false) stands for a save
Indexes == -1..MaxPages
NextIndex ==
    \/ Len(m_pages) < MaxPages /\ nextRef <= MaxDocRef /\ DocCreateNewPage(<<"Notes">>)
    \/ \E index \in Indexes :
           Len(m_pages) < MaxPages /\ nextRef <= MaxDocRef /\ DocInsertPage(index, <<"Notes">>)
    \/ \E index \in Indexes : DocRemovePageAt(index)
    \/ \E fromIndex, toIndex \in Indexes : DocMovePage(fromIndex, toIndex)
    \/ \E index \in Indexes :
           Len(m_pages) < MaxPages /\ nextRef <= MaxDocRef /\ DocDuplicatePage(index)
    \/ \E p \in PageIndexes :
           Len(Objects(p)) < 1 /\ nextRef <= MaxDocRef /\ PageAddObject(p, "Drawing", 0)
    \/ \E p \in PageIndexes : \E index \in -1..1 : PageRemoveObjectAt(p, index)
    \/ \E p \in PageIndexes : \E i \in ObjectIndexes(p) : DrawingAddStroke(p, i)
    \/ \E p \in PageIndexes : \E i \in ObjectIndexes(p) :
           \E index \in -1..MaxStrokes : DrawingRemoveStroke(p, i, index)
    \/ DocSetModified(FALSE)
SpecIndex == Init /\ [][NextIndex]_vars

\* The modified flag of the current document: the document is edited, reloaded
\* from its own JSON or from an empty one, and saved by the coordinator, whose
\* save may fail
NextMod ==
    \/ StorageInitialize("", TRUE, TRUE)
    \/ NoteSetCurrentDocument(DocPtr, AllOk, FALSE, AllOk)
    \/ \E commitOk \in BOOLEAN :
           NoteSaveCurrentDocument([AllOk EXCEPT !.commitOk = commitOk], FALSE, AllOk)
    \/ DocAddTag("work")
    \/ DocRemoveTag("work")
    \/ \E json \in {DocToJson, EmptyDocJson} : nextRef <= MaxStoreRef /\ DocFromJson(json)
SpecMod == Init /\ [][NextMod]_vars

\* The autosave timer: while autosave is enabled QTimer::timeout runs
\* Note::onAutoSaveTimeout, which calls triggerAutoSave; the statements of its
\* save succeed
AutoSaveTick ==
    /\ m_autoSaveEnabled
    /\ NoteTriggerAutoSave(AllOk, FALSE, AllOk)

\* The coordinator with its timer, on a storage whose statements succeed: the
\* storage is opened and closed, autosave enabled and disabled, the document
\* edited, reloaded, made current and saved. The event loop runs the timer's
\* slot as long as the timer is active: weak fairness on the tick.
NextAuto ==
    \/ StorageInitialize("", TRUE, TRUE)
    \/ StorageClose
    \/ \E enable \in BOOLEAN : NoteEnableAutoSave(enable)
    \/ \E document \in {Null, DocPtr} : NoteSetCurrentDocument(document, AllOk, FALSE, AllOk)
    \/ NoteSaveCurrentDocument(AllOk, FALSE, AllOk)
    \/ DocAddTag("work")
    \/ DocRemoveTag("work")
    \/ nextRef <= MaxStoreRef /\ DocFromJson(DocToJson)
    \/ AutoSaveTick
SpecAuto == Init /\ [][NextAuto]_vars /\ WF_vars(AutoSaveTick)

\* The coordinator duplicating documents of the store: the current document is
\* edited and saved, and documents are duplicated by id; the statements of the
\* copy's save may fail
NextCopy ==
    \/ StorageInitialize("", TRUE, TRUE)
    \/ StorageClose
    \/ \E document \in {Null, DocPtr} : NoteSetCurrentDocument(document, AllOk, FALSE, AllOk)
    \/ NoteSaveCurrentDocument(AllOk, FALSE, AllOk)
    \/ \E title \in {<<"Untitled Document">>, <<"Notes">>} : DocSetTitle(title)
    \/ DocAddTag("work")
    \/ \E documentId \in {Null, m_id, m_id + 1}, execOk \in BOOLEAN :
           /\ nextRef <= MaxCopyRef
           /\ NoteDuplicateDocument(documentId, AllOk, [AllOk EXCEPT !.execOk = execOk])
SpecCopy == Init /\ [][NextCopy]_vars

\* A document edited while time passes, and loaded from its own serialization
NextRound ==
    \/ ClockAdvance
    \/ \E title \in {<<"Untitled Document">>, <<"Notes">>} : DocSetTitle(title)
    \/ \E description \in {<<>>, <<"draft">>} : DocSetDescription(description)
    \/ DocAddTag("work")
    \/ DocRemoveTag("work")
    \/ Len(m_pages) < MaxStorePages /\ nextRef <= MaxDocRef /\ DocCreateNewPage(<<"Notes">>)
    \/ \E p \in PageIndexes, type \in {"Text", "Drawing"} :
           Objects(p) = <<>> /\ nextRef <= MaxDocRef /\ PageAddObject(p, type, 0)
    \/ DocAddLink(1, 2)
    \/ nextRef + RefsNeeded(DocToJson.pages) - 1 <= MaxRoundRef /\ DocFromJson(DocToJson)
SpecRound == Init /\ [][NextRound]_vars

\* One object on a page, resized, moved from the origin and scaled by integer
\* factors; the sizes a caller sets are odd and even, the positions positive
\* and negative
Sizes == {10, 15}
NextScale ==
    \/ \E p \in PageIndexes : Objects(p) = <<>> /\ PageAddObject(p, "Drawing", 0)
    \/ \E p \in PageIndexes : \E i \in ObjectIndexes(p) :
           \E width \in Sizes, height \in Sizes : ObjectSetSizeTo(p, i, width, height)
    \/ \E p \in PageIndexes : \E i \in ObjectIndexes(p) :
           \E d \in {-20, 7} :
               /\ Objects(p)[i].x = 0 /\ Objects(p)[i].y = 0
               /\ ObjectMoveBy(p, i, d, d)
    \/ \E p \in PageIndexes : \E i \in ObjectIndexes(p) :
           \E factor \in 1..MaxFactor :
               /\ Objects(p)[i].x \in -MaxCoord..MaxCoord
               /\ Objects(p)[i].y \in -MaxCoord..MaxCoord
               /\ Objects(p)[i].w * factor <= MaxSize
               /\ Objects(p)[i].h * factor <= MaxSize
               /\ ObjectScale(p, i, factor)
SpecScale == Init /\ [][NextScale]_vars

\* Live stroke capture on a DrawingObject: the pointer positions a widget
\* passes may be negative
\* (outside the widget); the tool is chosen between strokes, and a stroke is
\* started on an empty drawing
InputPoints == {<<0, 0>>, <<3, 9>>, <<-6, 3>>}
NextStroke ==
    \/ \E mode \in {"PenMode", "EraserMode"} :
           ~drawingObject.m_drawing /\ SetCurrentMode(mode)
    \/ \E point \in InputPoints : drawingObject.m_strokes = <<>> /\ StartStroke(point)
    \/ \E point \in InputPoints :
           Len(drawingObject.raw) < MaxPoints /\ AddPointToStroke(point)
    \/ FinishStroke
    \/ CancelStroke
    \/ ClearStrokes
SpecStroke == Init /\ [][NextStroke]_vars

\* SpecDraw: the strokes of a DrawingObject and their selection; an index
\* argument may be out of range, and fromJson reads the object's own JSON or
\* that of a drawing without strokes
InputStrokes == {<<<<0, 0>>, <<3, 9>>>>, <<<<-6, 3>>, <<0, 0>>>>}
StrokeIndexes == -1..MaxDrawn
NextDraw ==
    \/ \E stroke \in InputStrokes :
           Len(drawingObject.m_strokes) < MaxDrawn /\ AddStroke(stroke)
    \/ \E index \in StrokeIndexes : RemoveStroke(index)
    \/ \E index \in StrokeIndexes : SelectStroke(index)
    \/ \E index \in StrokeIndexes : DeselectStroke(index)
    \/ DeleteSelectedStrokes
    \/ /\ Len(drawingObject.m_strokes)
            + Len(StrokesAt(drawingObject, drawingObject.m_selectedStrokes, 1)) <= MaxDrawn
       /\ DuplicateSelectedStrokes
    \/ ClearStrokes
    \/ \E json \in {DrawingToJson(drawingObject),
                     DrawingToJson(NewDrawingObject)} : DrawingFromJson(json)
SpecDraw == Init /\ [][NextDraw]_vars

\* The tag list of a document: addTag, removeTag and setTags with lists of up to
\* MaxTagLen tags
Tags == {"work", "home", "todo"}
TagLists == UNION {[1..n -> Tags] : n \in 0..MaxTagLen}
NextTags ==
    \/ \E tag \in Tags : DocAddTag(tag)
    \/ \E tag \in Tags : DocRemoveTag(tag)
    \/ \E tags \in TagLists : DocSetTags(tags)
SpecTags == Init /\ [][NextTags]_vars

\* One page with up to two Text or Drawing objects, the second on the layer
\* above the first, which are resized, selected and deselected, and whose
\* selection is duplicated
NextSel ==
    \/ \E p \in PageIndexes, type \in {"Text", "Drawing"} :
           Len(Objects(p)) < 2 /\ PageAddObject(p, type, Len(Objects(p)))
    \/ \E p \in PageIndexes : \E i \in ObjectIndexes(p) :
           ObjectSetSize(p, i, DefaultSize)
    \/ \E p \in PageIndexes : \E i \in ObjectIndexes(p) : PageSelectObject(p, i)
    \/ \E p \in PageIndexes : \E i \in ObjectIndexes(p) : PageDeselectObject(p, i)
    \/ \E p \in PageIndexes : PageSelectAll(p)
    \/ \E p \in PageIndexes : PageClearSelection(p)
    \/ \E p \in PageIndexes : PageDuplicateSelectedWithin(p, MaxSelRef, MaxSelObjects)
SpecSel == Init /\ [][NextSel]_vars

\* One page whose objects are added, removed, moved, hidden and reordered, and
\* hit-tested at three points
HitPoints == {<<10, 10>>, <<30, 30>>, <<150, 150>>}
NextHit ==
    \/ \E p \in PageIndexes, layer \in {0, 1} : PageAddObject(p, "Drawing", layer)
    \/ \E p \in PageIndexes : \E i \in ObjectIndexes(p) : PageRemoveObject(p, i)
    \/ \E p \in PageIndexes : \E i \in ObjectIndexes(p) : PageBringToFront(p, i)
    \/ \E p \in PageIndexes : \E i \in ObjectIndexes(p) : PageSendToBack(p, i)
    \/ \E p \in PageIndexes : \E i \in ObjectIndexes(p) : PageBringForward(p, i)
    \/ \E p \in PageIndexes : \E i \in ObjectIndexes(p) : PageSendBackward(p, i)
    \/ \E p \in PageIndexes : \E i \in ObjectIndexes(p) :
           \E layer \in {0, 1} : PageSetObjectLayer(p, i, layer)
    \/ \E p \in PageIndexes : \E i \in ObjectIndexes(p) :
           \E visible \in BOOLEAN : ObjectSetVisible(p, i, visible)
    \/ \E p \in PageIndexes : \E i \in ObjectIndexes(p) :
           Objects(p)[i].x = 0 /\ ObjectMoveBy(p, i, 20, 20)
    \/ \E p \in PageIndexes, point \in HitPoints : PageObjectAt(p, point[1], point[2])
SpecHit == Init /\ [][NextHit]_vars

(***************************************************************************)
(* C1: after any sequence of addObject, removeObject, setObjectLayer,      *)
(* bringToFront, sendToBack, bringForward, sendBackward and Object::       *)
(* setLayer, the layers of Page::objects() in iteration order are          *)
(* non-decreasing.                                                         *)
(***************************************************************************)
C1_LayersNonDecreasing ==
    \A p \in PageIndexes : IsSortedByLayer(Objects(p))

(***************************************************************************)
(* C3: every object produced by clone() has an id different from the       *)
(* original's: if the ids of the objects on the page are pairwise distinct *)
(* before duplicateSelectedObjects, they are pairwise distinct after it.   *)
(***************************************************************************)
ObjectIdsDistinct ==
    \A p \in PageIndexes : \A i, j \in ObjectIndexes(p) :
        i # j => Objects(p)[i].id # Objects(p)[j].id

C3_CloneIdsDistinct ==
    [][(last'.op = "duplicateSelectedObjects" /\ ObjectIdsDistinct) => ObjectIdsDistinct']_vars

(***************************************************************************)
(* C10: starting from a document whose modified flag is false, any change  *)
(* to a contained page or object (moving an object, changing a Text        *)
(* object's content, an object's layer or visibility, Page::setSize,       *)
(* Page::setBackgroundColor, Page::clearObjects) sets isModified() to true.*)
(***************************************************************************)
ContentChangeOps ==
    {"moveBy", "moveSelectedObjects", "setContent", "setLayer", "setVisible",
     "setSize", "setBackgroundColor", "clearObjects"}

C10_ChildChangeSetsModified ==
    [][(~m_modified /\ last'.op \in ContentChangeOps /\ m_pages' # m_pages) => m_modified']_vars

(***************************************************************************)
(* C4: in every state reachable by createNewPage, addPage of freshly       *)
(* constructed pages, duplicatePage, removePage and movePage, no two pages *)
(* of the document have the same id.                                       *)
(***************************************************************************)
C4_PageIdsDistinct ==
    \A i, j \in PageIndexes : i # j => m_pages[i].id # m_pages[j].id

(***************************************************************************)
(* C7: immediately after addLink(a, b), getBacklinks(b) contains a;        *)
(* immediately after removeLink(a, b), getBacklinks(b) does not contain a; *)
(* after any preceding sequence of addLink / removeLink calls.             *)
(***************************************************************************)
C7_BacklinkSymmetry ==
    /\ last.op = "addLink" => Contains(GetBacklinks(m_links, last.b), last.a)
    /\ last.op = "removeLink" => ~Contains(GetBacklinks(m_links, last.b), last.a)

\* addLink(a, b) has made a the second source that links to b
C7_Witness ==
    /\ last.op = "addLink"
    /\ Len(GetBacklinks(m_links, last.b)) = 2
    /\ Len(m_links[last.a]) = 2

(***************************************************************************)
(* C8: when the current page, at index i, is removed: if the collection    *)
(* becomes empty the current page becomes null; otherwise it becomes the   *)
(* page that was at index i-1 (for i = 0 the page that is now first); the  *)
(* removed page is never left as the current page.                         *)
(***************************************************************************)
C8_RemoveCurrentSelectsPrevious ==
    [][(last'.op = "removePage" /\ m_currentPage # Null /\ last'.a = m_currentPage)
        => LET i == IndexOf(m_pages, m_currentPage) IN
           /\ m_pages' = <<>> => m_currentPage' = Null
           /\ m_pages' # <<>> =>
                 m_currentPage' = IF i = 1 THEN m_pages'[1].ptr ELSE m_pages[i - 1].ptr
           /\ m_currentPage' # m_currentPage]_vars

\* the current page, not the first of several, has just been removed
C8_Witness ==
    /\ last.op = "removePage"
    /\ last.c = 1
    /\ last.b >= 1
    /\ Len(m_pages) >= 2

(***************************************************************************)
(* C9: after any sequence of addPage, insertPage, removePage, clearPages,  *)
(* movePage, duplicatePage, createNewPage, setCurrentPage(index) and       *)
(* fromJson, currentPage() is null or an element of pages().               *)
(***************************************************************************)
C9_CurrentPageIsMember ==
    m_currentPage = Null \/ \E i \in PageIndexes : m_pages[i].ptr = m_currentPage

\* the current page has been removed and another page of the document is current
C9_Witness ==
    /\ last.op = "removePage"
    /\ last.c = 1
    /\ m_currentPage # Null
    /\ \E i \in PageIndexes : m_pages[i].ptr = m_currentPage

(***************************************************************************)
(* C2: if any step of Storage::saveDocument fails (the document row write  *)
(* or the write of the k-th page row), then after it returns false the     *)
(* documents and pages tables are exactly as they were before the call.    *)
(***************************************************************************)
C2_FailedSaveLeavesTables ==
    [][(last'.op = "saveDocument" /\ m_initialized /\ last'.ret = FALSE)
        => tables' = tables]_vars

(***************************************************************************)
(* C5: after a saveDocument(d) that returned true, loadDocument(d.id) on a *)
(* freshly opened Storage returns a Document with the same id, title, tag  *)
(* list and number of pages, in the same order, as d had when saved.       *)
(***************************************************************************)
C5_SaveLoadRoundTrip ==
    (/\ last.op = "loadDocument"
     /\ m_initialized
     /\ hist.saved # None
     /\ hist.reopened
     /\ last.a = hist.saved[1].id)
    => /\ last.ret # None
       /\ last.ret[1].doc.id = hist.saved[1].id
       /\ last.ret[1].doc.title = hist.saved[1].title
       /\ last.ret[1].doc.tags = hist.saved[1].tags
       /\ Len(last.ret[1].doc.pages) = Len(hist.saved[1].pages)
       /\ \A k \in 1..Len(hist.saved[1].pages) :
              last.ret[1].doc.pages[k].id = hist.saved[1].pages[k].id

(***************************************************************************)
(* C6: after any sequence of page additions, removals and duplications     *)
(* interleaved with saveDocument calls that returned true, the rows of the *)
(* pages table whose document_id is the document's id correspond           *)
(* one-to-one to the pages of the document: same count, one row per page.  *)
(***************************************************************************)
C6_PageRowsMatchPages ==
    (last.op = "saveDocument" /\ last.ret = TRUE)
    => LET rows == {r \in tables.pages : r.document_id = m_id} IN
       /\ Cardinality(rows) = Len(m_pages)
       /\ \A i \in PageIndexes : \E r \in rows : r.id = m_pages[i].id
       /\ \A r \in rows : \E i \in PageIndexes : r.id = m_pages[i].id

\* The events of a sequence, and "every b in events comes after an a"
EventsOf(events) == {events[k] : k \in 1..Len(events)}
ComesBefore(events, a, b) ==
    \A j \in 1..Len(events) :
        events[j] = b => \E i \in 1..(j - 1) : events[i] = a

(***************************************************************************)
(* C11: if Note::saveCurrentDocument fails (the storage save returns       *)
(* false), the current Document is unchanged and both the Document's and   *)
(* the coordinator's modified flags keep the values they had before the    *)
(* call.                                                                   *)
(***************************************************************************)
C11_FailedSaveKeepsFlags ==
    [][(last'.op = "saveCurrentDocument" /\ last'.ret = FALSE)
       => /\ docVars' = docVars
          /\ note_m_modified' = note_m_modified]_vars

C17_AutoSaveOnlyWhenModified ==
    [][last'.op = "triggerAutoSave"
       => /\ "saveCurrentDocument" \in EventsOf(last'.events)
                 => (note_m_modified /\ m_currentDocument # Null)
          /\ ~note_m_modified
                 => /\ tables' = tables
                    /\ txBase' = txBase
                    /\ docVars' = docVars
                    /\ "autoSaveTriggered" \notin EventsOf(last'.events)]_vars

\* A tick with the flag not set, on an open storage with a current document
C17_Witness ==
    /\ last.op = "triggerAutoSave"
    /\ last.events = <<>>
    /\ m_currentDocument # Null
    /\ m_initialized
    /\ ~note_m_modified

(***************************************************************************)
(* C18: at most one save is in progress: inside one call no second         *)
(* beginTransaction happens while an earlier one is between its            *)
(* beginTransaction and its commit or rollback, also while a databaseError *)
(* emitted inside the save is handled by a connected slot.                 *)
(***************************************************************************)
C18_OneSaveInProgress ==
    \A i \in 1..Len(last.events) : \A j \in (i + 1)..Len(last.events) :
        (last.events[i] = "beginTransaction" /\ last.events[j] = "beginTransaction")
        => \E k \in (i + 1)..(j - 1) :
               last.events[k] \in {"commitTransaction", "rollbackTransaction"}

(***************************************************************************)
(* C12: while the Storage is Closed, each of saveDocument, loadDocument,   *)
(* loadDocumentByTitle, deleteDocument, savePage, loadPage, deletePage,    *)
(* listDocuments, searchDocuments, findDocumentsByTag and createBackup     *)
(* returns its failure value (false, nullptr, the empty list) and changes  *)
(* neither the store contents nor the Closed state.                        *)
(***************************************************************************)
BoolOps == {"saveDocument", "deleteDocument", "savePage", "deletePage", "createBackup"}
ValueOps == {"loadDocument", "loadDocumentByTitle", "loadPage",
             "listDocuments", "searchDocuments", "findDocumentsByTag"}
C12_ClosedStorageRefuses ==
    [][(~m_initialized /\ last'.op \in BoolOps \cup ValueOps)
       => /\ last'.ret = IF last'.op \in BoolOps THEN FALSE ELSE <<>>
          /\ tables' = tables
          /\ txBase' = txBase
          /\ fileVars' = fileVars
          /\ ~m_initialized'
          /\ dbOpen' = dbOpen]_vars

\* deletePage refused on a closed storage that holds the page's row
C12_Witness ==
    /\ last.op = "deletePage"
    /\ ~m_initialized
    /\ last.ret = FALSE
    /\ \E r \in tables.pages : r.id = last.a

(***************************************************************************)
(* C13: initialize on an already Open storage returns success and changes  *)
(* nothing: the database path, the open connection and the stored contents *)
(* are as before.                                                          *)
(***************************************************************************)
C13_InitializeIdempotent ==
    [][(m_initialized /\ last'.op = "initialize")
       => /\ last'.ret = TRUE
          /\ m_databasePath' = m_databasePath
          /\ m_initialized'
          /\ dbOpen' = dbOpen
          /\ tables' = tables
          /\ txBase' = txBase
          /\ otherTables' = otherTables
          /\ backup' = backup]_vars

\* initialize("other.db") was called on the storage open at the default path,
\* with a document stored
C13_Witness ==
    /\ last.op = "initialize"
    /\ last.text = <<"other.db">>
    /\ m_initialized
    /\ m_databasePath = DefaultPath
    /\ tables.documents # {}

(***************************************************************************)
(* C14: if createBackup(b) succeeded when the store contents were S, a     *)
(* later successful restoreFromBackup(b) leaves the Storage Open with      *)
(* contents exactly S, and getDocumentCount() is the count in S, whatever  *)
(* saves and deletes happened in between.                                  *)
(***************************************************************************)
C14_RestoreYieldsBackup ==
    (last.op = "restoreFromBackup" /\ last.ret = TRUE)
    => /\ m_initialized
       /\ dbOpen
       /\ tables = backup[1]
       /\ GetDocumentCount = Cardinality(backup[1].documents)

(***************************************************************************)
(* C15: if Storage::restoreFromBackup fails (returns false: the backup is  *)
(* missing or the file copy fails), the Storage is still Open afterwards   *)
(* with its previous contents intact.                                      *)
(***************************************************************************)
C15_FailedRestoreKeepsStorage ==
    [][(m_initialized /\ last'.op = "restoreFromBackup" /\ last'.ret = FALSE)
       => /\ m_initialized'
          /\ dbOpen'
          /\ Committed' = Committed]_vars

(***************************************************************************)
(* C19: for every Text and Drawing object x, a fresh object loaded with    *)
(* fromJson(x.toJson()) equals x in every attribute: id, bounds, layer,    *)
(* visibility, selected flag and the variant's data.                       *)
(***************************************************************************)
C19_ObjectRoundTrip ==
    \A p \in PageIndexes : \A i \in ObjectIndexes(p) :
        LET x == Objects(p)[i] IN
        [Clone(x, nextRef) EXCEPT !.ptr = x.ptr] = x

HitsAt(p, px, py) ==
    {k \in ObjectIndexes(p) : Objects(p)[k].visible /\ ObjectContains(Objects(p)[k], px, py)}

C21_ObjectAtTopmost ==
    last.op = "objectAt"
    => LET hits == HitsAt(last.c, last.a, last.b) IN
       /\ hits = {} => last.ret = Null
       /\ hits # {} =>
              \E k \in hits :
                  /\ Objects(last.c)[k].ptr = last.ret
                  /\ \A j \in hits : Objects(last.c)[j].layer <= Objects(last.c)[k].layer
       /\ \A k \in ObjectIndexes(last.c) :
              ~Objects(last.c)[k].visible => Objects(last.c)[k].ptr # last.ret

\* The same on a page whose objects are in layer order
C21_OnSortedPage ==
    (last.op = "objectAt" /\ IsSortedByLayer(Objects(last.c))) => C21_ObjectAtTopmost

(***************************************************************************)
(* C22: after Page::duplicateSelectedObjects with selected set S, the page *)
(* holds |S| more objects; every object of S is still on the page and is   *)
(* deselected; the selected objects are exactly the new clones; and each   *)
(* clone's bounds are its original's translated by (20,20).  The k-th      *)
(* clone constructed is the clone of the k-th selected object.             *)
(***************************************************************************)
DuplicateHolds(before, after, ref, sameSize) ==
    LET S == SelectSeq(before, IsSelected)
        old == {before[k].ptr : k \in 1..Len(before)}
        clones == {j \in 1..Len(after) : after[j].ptr \notin old}
    IN  /\ Len(after) = Len(before) + Len(S)
        /\ \A k \in 1..Len(S) :
               \E j \in 1..Len(after) : after[j] = [S[k] EXCEPT !.selected = FALSE]
        /\ {j \in 1..Len(after) : after[j].selected} = clones
        /\ \A k \in 1..Len(S) :
               \E j \in clones :
                   /\ after[j].ptr = ref + k - 1
                   /\ after[j].x = S[k].x + 20
                   /\ after[j].y = S[k].y + 20
                   /\ sameSize => after[j].h = S[k].h

C22_DuplicateSelection ==
    [][last'.op = "duplicateSelectedObjects"
       => \A p \in PageIndexes :
              DuplicateHolds(Objects(p), m_pages'[p].objects, nextRef, TRUE)]_vars

\* The same without the size of the bounds: count, originals, selection, position
C22_ExceptSize ==
    [][last'.op = "duplicateSelectedObjects"
       => \A p \in PageIndexes :
              DuplicateHolds(Objects(p), m_pages'[p].objects, nextRef, FALSE)]_vars

\* A selection of two was duplicated
C22_TwoDuplicated ==
    /\ last.op = "duplicateSelectedObjects"
    /\ last.a = 2
    /\ \E p \in PageIndexes : Len(Objects(p)) = 4

\* The objects of before other than ptr are in the same relative order in after
OthersKeepOrder(before, after, ptr) ==
    \A i, j \in 1..Len(before) :
        (i < j /\ before[i].ptr # ptr /\ before[j].ptr # ptr)
        => /\ IndexOf(after, before[i].ptr) # 0
           /\ IndexOf(after, before[i].ptr) < IndexOf(after, before[j].ptr)

\* The page, as an index of m_pages, that holds the object ptr
PagesOf(ptr) == {p \in PageIndexes : IndexOf(Objects(p), ptr) # 0}

(***************************************************************************)
(* C23: on a page with n objects, after bringToFront(o) the object o is    *)
(* the last in iteration order and its layer is n-1; after sendToBack(o)   *)
(* it is the first and its layer is 0; the relative order of all other     *)
(* objects is unchanged.                                                    *)
(***************************************************************************)
C23_FrontAndBack ==
    [][\A p \in PagesOf(last'.a) :
          LET before == Objects(p)
              after == m_pages'[p].objects
              n == Len(before)
          IN  /\ last'.op = "bringToFront"
                  => /\ after[n].ptr = last'.a
                     /\ after[n].layer = n - 1
                     /\ OthersKeepOrder(before, after, last'.a)
              /\ last'.op = "sendToBack"
                  => /\ after[1].ptr = last'.a
                     /\ after[1].layer = 0
                     /\ OthersKeepOrder(before, after, last'.a)]_vars

(***************************************************************************)
(* C24: bringForward(o) for an object at index i < n-1 leaves o at index   *)
(* i+1 and its former upper neighbour at index i, with every other object  *)
(* at its previous index; at i = n-1 it changes nothing.  sendBackward(o)  *)
(* at i > 0 exchanges o with the object at i-1 and changes nothing at      *)
(* i = 0.  (Indexes here are the code's, from 0.)                          *)
(***************************************************************************)
Exchanged(before, after, i, j) ==
    /\ after[i].ptr = before[j].ptr
    /\ after[j].ptr = before[i].ptr
    /\ \A k \in 1..Len(before) : k \notin {i, j} => after[k].ptr = before[k].ptr

C24_ForwardAndBackward ==
    [][\A p \in PagesOf(last'.a) :
          LET before == Objects(p)
              after == m_pages'[p].objects
              i == IndexOf(before, last'.a)
          IN  /\ last'.op = "bringForward"
                  => IF i < Len(before)
                     THEN Exchanged(before, after, i, i + 1)
                     ELSE after = before
              /\ last'.op = "sendBackward"
                  => IF i > 1
                     THEN Exchanged(before, after, i, i - 1)
                     ELSE after = before]_vars

(***************************************************************************)
(* C25: whenever a Page re-sorts its objects by layer (after addObject,    *)
(* setObjectLayer or a layer change of a contained object), objects with   *)
(* equal layer keep their previous relative order; a newly added object is *)
(* placed after every existing object with the same layer.                 *)
(***************************************************************************)
C25_SortIsStable ==
    [][last'.op \in {"addObject", "setObjectLayer", "setLayer"}
       => \A p \in PageIndexes :
              LET before == Objects(p)
                  after == m_pages'[p].objects
              IN  /\ \A i, j \in 1..Len(before) :
                         LET ai == IndexOf(after, before[i].ptr)
                             aj == IndexOf(after, before[j].ptr)
                         IN  (i < j /\ after[ai].layer = after[aj].layer) => ai < aj
                  /\ last'.op = "addObject"
                         => \A k \in 1..Len(after) :
                                (/\ after[k].ptr # last'.a
                                 /\ after[k].layer = last'.b)
                                => k < IndexOf(after, last'.a)]_vars

(***************************************************************************)
(* C26: after any sequence of addTag, removeTag and setTags calls on a     *)
(* Document, tags() contains no duplicate entry.                           *)
(***************************************************************************)
C26_TagsUnique ==
    \A i, j \in 1..Len(m_tags) : i # j => m_tags[i] # m_tags[j]

(***************************************************************************)
(* C27: called with an out-of-range index, each of Document::removePage(i),*)
(* movePage(from, to), duplicatePage(i), insertPage(i, page),              *)
(* Page::removeObject(i) and DrawingObject::removeStroke(i) leaves the     *)
(* collection, the current page and the modified flag exactly as they      *)
(* were; movePage with from = to is likewise a no-op.  For insertPage the  *)
(* indexes in range are 0..size, for the others 0..size-1.                 *)
(***************************************************************************)
InRange(index, size) == index >= 0 /\ index < size

OutOfRangeCall ==
    \/ last'.op = "removePageAt"
    \/ /\ last'.op = "movePage"
       /\ \/ ~InRange(last'.a, Len(m_pages))
          \/ ~InRange(last'.b, Len(m_pages))
          \/ last'.a = last'.b
    \/ last'.op = "duplicatePage" /\ ~InRange(last'.a, Len(m_pages))
    \/ last'.op = "insertPage" /\ ~InRange(last'.b, Len(m_pages) + 1)
    \/ last'.op = "removeObjectAt" /\ ~InRange(last'.a, Len(Objects(last'.b)))
    \/ /\ last'.op = "removeStroke"
       /\ \A p \in PagesOf(last'.a) :
              ~InRange(last'.b, Objects(p)[IndexOf(Objects(p), last'.a)].content)

C27_OutOfRangeNoOp ==
    [][OutOfRangeCall => docVars' = docVars]_vars

\* The same for every operation but insertPage
C27_ExceptInsertPage ==
    [][(OutOfRangeCall /\ last'.op # "insertPage") => docVars' = docVars]_vars

\* removeStroke was called out of range on a Drawing object that has strokes,
\* in a document whose modified flag is not set
C27_StrokeCase ==
    /\ last.op = "removeStroke"
    /\ ~m_modified
    /\ \E p \in PagesOf(last.a) :
           LET o == Objects(p)[IndexOf(Objects(p), last.a)] IN
           o.content > 0 /\ ~InRange(last.b, o.content)

(***************************************************************************)
(* C28: every Storage operation that fails (returns false or null, or is   *)
(* a list query refused by the Closed state) also emits databaseError:     *)
(* failures caused by the Closed state, by a missing row and by a failed   *)
(* backup or restore copy.                                                 *)
(***************************************************************************)
LoadOps == {"loadDocument", "loadDocumentByTitle", "loadPage"}
ListOps == {"listDocuments", "searchDocuments", "findDocumentsByTag"}

StorageCallFailed ==
    \/ last'.op \in BoolOps \cup {"initialize", "restoreFromBackup"} /\ last'.ret = FALSE
    \/ last'.op \in LoadOps /\ last'.ret = None
    \/ last'.op \in ListOps /\ ~m_initialized

C28_FailureEmitsError ==
    [][StorageCallFailed => "databaseError" \in EventsOf(last'.events)]_vars

\* The call was made with a null page, an empty id or an empty title
EmptyArgument ==
    \/ last'.op \in {"loadDocument", "deleteDocument", "savePage", "loadPage", "deletePage"}
          /\ last'.a = Null
    \/ last'.op = "loadDocumentByTitle" /\ last'.text = <<>>

\* The same for the failures of an Open storage called with an argument that is
\* not empty, createBackup and restoreFromBackup apart
C28_OnOpenStorage ==
    [][(/\ StorageCallFailed
        /\ m_initialized \/ last'.op = "initialize"
        /\ last'.op \notin {"createBackup", "restoreFromBackup"}
        /\ ~EmptyArgument)
       => "databaseError" \in EventsOf(last'.events)]_vars

(***************************************************************************)
(* C29: once Document::isModified() is true it stays true through every    *)
(* Document mutation, query and (de)serialization operation, fromJson      *)
(* included, until the coordinator calls setModified(false) after a        *)
(* successful save; no other operation resets it.                          *)
(***************************************************************************)
NoteOps ==
    {"saveCurrentDocument", "triggerAutoSave", "closeCurrentDocument",
     "setCurrentDocument", "deleteDocument"}

C29_ModifiedUntilSaved ==
    [][(m_modified /\ ~m_modified')
       => /\ last'.op \in NoteOps
          /\ "documentSaved" \in EventsOf(last'.events)]_vars

\* The same for every operation but fromJson
C29_ExceptFromJson ==
    [][(m_modified /\ ~m_modified' /\ last'.op # "fromJson")
       => /\ last'.op \in NoteOps
          /\ "documentSaved" \in EventsOf(last'.events)]_vars

\* The coordinator has cleared the flag after a save, and the document was
\* modified again
C29_SavedThenModified ==
    /\ m_modified
    /\ tables.documents # {}
    /\ last.op \in {"addTag", "removeTag"}

(***************************************************************************)
(* C30: with the storage open, saves not failing and the autosave timer    *)
(* ticking (weak fairness on the tick), whenever the coordinator's         *)
(* modified flag becomes true it is eventually cleared, and at the moment  *)
(* it is cleared the stored blob of the current document equals the        *)
(* document's serialization.                                               *)
(***************************************************************************)
AutoSaving == m_initialized /\ m_autoSaveEnabled

\* The row of the current document holds the blob of its serialization
StoredBlobIsSerialization ==
    \E r \in tables.documents : r.id = m_id /\ r.data = ToBlob(DocToJson)

C30_EventuallyCleared == (note_m_modified /\ AutoSaving) ~> (~note_m_modified \/ ~AutoSaving)

C30_ClearedWhenStored ==
    [][(note_m_modified /\ ~note_m_modified' /\ m_initialized /\ m_currentDocument' # Null)
       => StoredBlobIsSerialization']_vars

C30_AutoSaveClearsModified == C30_EventuallyCleared /\ C30_ClearedWhenStored

\* A tick has saved the modified current document and cleared the flag
C30_TickSaved ==
    /\ last.op = "triggerAutoSave"
    /\ "documentSaved" \in EventsOf(last.events)
    /\ AutoSaving
    /\ m_currentDocument # Null
    /\ ~note_m_modified
    /\ m_tags # <<>>
    /\ StoredBlobIsSerialization

(***************************************************************************)
(* C31: during live stroke capture, once at least 3 points have been seen  *)
(* the point appended to the stroke path for an incoming point is the      *)
(* component-wise integer mean of the last 3 raw input points; before that *)
(* threshold the raw incoming point is appended unchanged.  With exactly 3 *)
(* points seen, the incoming one included, either is accepted here.        *)
(***************************************************************************)
Last(s) == s[Len(s)]

\* The mean of the n points of s that end at position to
MeanOf(s, to, n) ==
    <<TruncDiv(SumOf(SubSeq(s, to - n + 1, to), 1, 1), n),
      TruncDiv(SumOf(SubSeq(s, to - n + 1, to), 1, 2), n)>>

\* addPointToStroke has appended a point to the path of the live stroke
PointAppended ==
    /\ last.op = "addPointToStroke"
    /\ drawingObject.m_drawing
    /\ drawingObject.m_currentMode # "EraserMode"
    /\ Len(drawingObject.raw) >= 2

C31_MeanOfLastRaw ==
    PointAppended
    => LET raw == drawingObject.raw
           appended == Last(drawingObject.m_currentStroke)
       IN  /\ Len(raw) < 3 => appended = Last(raw)
           /\ Len(raw) = 3 => appended \in {Last(raw), MeanOf(raw, 3, 3)}
           /\ Len(raw) > 3 => appended = MeanOf(raw, Len(raw), 3)

\* The reading in which the mean is taken over the 3 raw points before the
\* incoming one
C31_MeanOfPreviousRaw ==
    (PointAppended /\ Len(drawingObject.raw) > 3)
    => Last(drawingObject.m_currentStroke)
          = MeanOf(drawingObject.raw, Len(drawingObject.raw) - 1, 3)

\* What the code appends: the incoming point while fewer than 3 points are
\* remembered, then the mean of the last 3 remembered points, which are
\* smoothed ones and do not include the incoming point
C31_MeanOfRemembered ==
    PointAppended
    => LET points == drawingObject.m_smoothPoints
           appended == Last(drawingObject.m_currentStroke)
       IN  /\ appended = Last(points)
           /\ Len(points) <= 3 => appended = Last(drawingObject.raw)
           /\ Len(points) > 3 => appended = MeanOf(points, Len(points) - 1, 3)

(***************************************************************************)
(* C32: Object::scale(f) sets width and height to trunc(width*f) and       *)
(* trunc(height*f) and leaves the centre of the bounding rectangle         *)
(* unchanged, for every integer rectangle and integer factor; in           *)
(* particular scale(1) leaves the bounds unchanged.                        *)
(***************************************************************************)
\* The step is scale(last'.b) on the i-th object of page p
Scaled(p, i) ==
    /\ last'.op = "scale"
    /\ i \in 1..Len(Objects(p))
    /\ Objects(p)[i].ptr = last'.a

SameBounds(o1, o2) == o1.x = o2.x /\ o1.y = o2.y /\ o1.w = o2.w /\ o1.h = o2.h

C32_ScaleKeepsCentre ==
    [][\A p \in PageIndexes : \A i \in 1..Len(Objects(p)) :
          Scaled(p, i)
          => LET before == Objects(p)[i]
                 after == Objects(p)'[i]
             IN  /\ after.w = before.w * last'.b
                 /\ after.h = before.h * last'.b
                 /\ Center(after) = Center(before)
                 /\ last'.b = 1 => SameBounds(after, before)]_vars

\* The size alone is as stated
C32_ScaleMultipliesSize ==
    [][\A p \in PageIndexes : \A i \in 1..Len(Objects(p)) :
          Scaled(p, i)
          => /\ Objects(p)'[i].w = Objects(p)[i].w * last'.b
             /\ Objects(p)'[i].h = Objects(p)[i].h * last'.b]_vars

\* The centre is kept when the old and the new width and height are odd
C32_OddSizesKeepCentre ==
    [][\A p \in PageIndexes : \A i \in 1..Len(Objects(p)) :
          (/\ Scaled(p, i)
           /\ Objects(p)[i].w % 2 = 1 /\ Objects(p)[i].h % 2 = 1
           /\ last'.b % 2 = 1)
          => /\ Center(Objects(p)'[i]) = Center(Objects(p)[i])
             /\ last'.b = 1 => SameBounds(Objects(p)'[i], Objects(p)[i])]_vars

(***************************************************************************)
(* C33: a document loaded with fromJson(d.toJson()) serializes to the same *)
(* JSON as d: id, title, description, createdDate, modifiedDate, tags,     *)
(* pages and links are preserved by the round trip, while time may advance *)
(* between the calls.                                                      *)
(***************************************************************************)
C33_RoundTripKeepsJson ==
    [][last'.op = "fromJson" => DocToJson' = DocToJson]_vars

\* Every entry but modifiedDate is preserved
C33_ExceptModifiedDate ==
    [][last'.op = "fromJson"
       => DocToJson' = [DocToJson EXCEPT !.modifiedDate = DocToJson'.modifiedDate]]_vars

\* The modifiedDate of the loaded document is the time of the load
C33_ModifiedDateIsLoadTime ==
    [][last'.op = "fromJson" => DocToJson'.modifiedDate = IsoDate(now)]_vars

(***************************************************************************)
(* C34: after Note::duplicateDocument(id) succeeds, the store still        *)
(* contains the original document unchanged under id and additionally      *)
(* contains a new document with a different id whose title is the original *)
(* title followed by " (Copy)"; getDocumentCount() has increased by        *)
(* exactly one.                                                            *)
(***************************************************************************)
\* The step is a duplicateDocument(last'.a) that returned true
Duplicated == last'.op = "duplicateDocument" /\ last'.ret = TRUE

C34_DuplicateAddsCopy ==
    [][Duplicated
       => /\ \A r \in tables.documents : r.id = last'.a => r \in tables'.documents
          /\ \E r \in tables.documents, copy \in tables'.documents :
                 /\ r.id = last'.a
                 /\ copy.id # r.id
                 /\ copy.title = r.title \o <<" (Copy)">>
          /\ Cardinality(tables'.documents) = Cardinality(tables.documents) + 1]_vars

\* What the code does: the copy is stored under the id of the original, whose
\* row it replaces, and the number of documents is unchanged
C34_CopyReplacesOriginal ==
    [][Duplicated
       => /\ \E r \in tables.documents, copy \in tables'.documents :
                 /\ r.id = last'.a
                 /\ copy.id = r.id
                 /\ copy.title = r.title \o <<" (Copy)">>
          /\ Cardinality(tables'.documents) = Cardinality(tables.documents)
          /\ m_id' = last'.a]_vars

(***************************************************************************)
(* C35: Storage::saveDocument returns true (and emits documentSaved) only  *)
(* if its transaction was actually begun and committed, i.e. only if       *)
(* afterwards the stored document row and page rows equal the document's   *)
(* serialization; if beginTransaction or commitTransaction fails the call  *)
(* reports failure.                                                        *)
(***************************************************************************)
\* The rows of the document and of its pages are in tables t
RowsStoredIn(t) ==
    /\ DocumentRow(m_id, m_title, m_tags, m_pages, m_links) \in t.documents
    /\ \A i \in PageIndexes : PageRow(m_id, m_pages[i]) \in t.pages

SaveReturnedTrue == last.op = "saveDocument" /\ last.ret = TRUE

C35_TrueOnlyIfCommitted ==
    SaveReturnedTrue => (txBase = NoTx /\ RowsStoredIn(Committed))

\* The connection itself reads the document's row after every save that
\* returned true
C35_RowWrittenOnConnection ==
    SaveReturnedTrue
    => DocumentRow(m_id, m_title, m_tags, m_pages, m_links) \in tables.documents

\* A save returned true and left its transaction open
C35_UncommittedTrue == SaveReturnedTrue /\ txBase # NoTx /\ ~RowsStoredIn(Committed)

(***************************************************************************)
(* C36: Storage::isOpen() is true exactly when the Storage accepts         *)
(* document operations: after a failed initialize (database opened but     *)
(* table creation or migration failed) isOpen() is false, after a          *)
(* successful initialize it is true, and after close() it is false.        *)
(***************************************************************************)
C36_IsOpenIffAccepts ==
    /\ IsOpen <=> m_initialized
    /\ (last.op = "initialize" /\ last.ret = FALSE) => ~IsOpen
    /\ (last.op = "initialize" /\ last.ret = TRUE) => IsOpen
    /\ last.op = "close" => ~IsOpen

\* After a successful initialize and after close() isOpen() is as stated, and
\* a storage that accepts operations is open
C36_ExceptFailedInitialize ==
    /\ m_initialized => IsOpen
    /\ (last.op = "initialize" /\ last.ret = TRUE) => IsOpen
    /\ last.op = "close" => ~IsOpen

\* initialize has failed after opening the database
C36_OpenButRefusing ==
    last.op = "initialize" /\ last.ret = FALSE /\ IsOpen /\ ~m_initialized

(***************************************************************************)
(* C37: whenever the coordinator has a current document, Note::isModified()*)
(* equals currentDocument()->isModified(), after any sequence of document  *)
(* mutations, saves, loads, Document::fromJson / setState on the current   *)
(* document and setCurrentDocument switches.                               *)
(***************************************************************************)
C37_FlagsAgree == m_currentDocument # Null => note_m_modified = m_modified

\* The flags agree after every step but a fromJson, and a step that is not a
\* fromJson does not make them differ
C37_ExceptFromJson ==
    [][(m_currentDocument' # Null /\ note_m_modified' # m_modified')
       => \/ last'.op = "fromJson"
          \/ (m_currentDocument # Null /\ note_m_modified # m_modified)]_vars

\* The current document was loaded from JSON: the coordinator reports it
\* modified, the document does not
C37_FlagsDiffer ==
    /\ last.op = "fromJson"
    /\ m_currentDocument # Null
    /\ note_m_modified
    /\ ~m_modified

(***************************************************************************)
(* C38: a newly constructed Document, before any call by the caller,       *)
(* reports isModified() = false.                                           *)
(***************************************************************************)
C38_NewDocumentUnmodified == last.op = "Document" => ~m_modified

\* What the constructor leaves: the default page "Page 1", current, added by
\* addPage, which has marked the document modified
C38_ConstructorAddsPage ==
    last.op = "Document"
    => /\ Len(m_pages) = 1
       /\ m_pages[1].title = <<"Page 1">>
       /\ m_currentPage = m_pages[1].ptr
       /\ m_modified

(***************************************************************************)
(* C39: Document::removeLink(a, b) called when no link a -> b exists       *)
(* leaves the link table unchanged: the output of toJson() is identical    *)
(* before and after, and the modified flag does not change.                *)
(***************************************************************************)
RemovedAbsentLink ==
    /\ last'.op = "removeLink"
    /\ ~Contains(LinkList(m_links, last'.a), last'.b)

C39_AbsentLinkNoChange ==
    [][RemovedAbsentLink => (DocToJson' = DocToJson /\ m_modified' = m_modified)]_vars

\* The modified flag and the lists of links stay as they were
C39_AbsentLinkKeepsFlag ==
    [][RemovedAbsentLink
       => /\ m_modified' = m_modified
          /\ \A k \in LinkIds : LinkList(m_links', k) = LinkList(m_links, k)]_vars

\* toJson() is unchanged when the source page already has an entry
C39_ExceptAbsentSource ==
    [][RemovedAbsentLink /\ last'.a \in DOMAIN m_links
       => (DocToJson' = DocToJson /\ m_modified' = m_modified)]_vars

\* An unmodified document has gained an empty entry for a page that had none
C39_EmptyEntryAdded ==
    /\ last.op = "removeLink"
    /\ ~m_modified
    /\ last.a \in DOMAIN m_links
    /\ m_links[last.a] = <<>>

(***************************************************************************)
(* C40: in a DrawingObject, after any sequence of addStroke, removeStroke, *)
(* selectStroke, deselectStroke, deleteSelectedStrokes,                    *)
(* duplicateSelectedStrokes, clearStrokes and fromJson, every index in     *)
(* selectedStrokes() is a valid index into strokes() and selectedStrokes() *)
(* contains no duplicate index.                                            *)
(***************************************************************************)
ValidSelection(d) ==
    \A k \in 1..Len(d.m_selectedStrokes) :
        d.m_selectedStrokes[k] >= 0 /\ d.m_selectedStrokes[k] < Len(d.m_strokes)

DistinctSelection(d) ==
    \A j, k \in 1..Len(d.m_selectedStrokes) :
        j # k => d.m_selectedStrokes[j] # d.m_selectedStrokes[k]

C40_SelectionValid == ValidSelection(drawingObject) /\ DistinctSelection(drawingObject)

\* No index is selected twice
C40_NoDuplicates == DistinctSelection(drawingObject)

\* Only removeStroke and fromJson make a valid selection invalid
C40_ExceptRemoveAndFromJson ==
    [][(ValidSelection(drawingObject) /\ ~ValidSelection(drawingObject'))
       => last'.op \in {"removeStroke", "drawingFromJson"}]_vars

\* A stroke below a selected one was removed: the selected index is past the end
C40_StaleIndex ==
    /\ last.op = "removeStroke"
    /\ \E k \in 1..Len(drawingObject.m_selectedStrokes) :
           drawingObject.m_selectedStrokes[k] >= Len(drawingObject.m_strokes)

\* A selection that survived fromJson of a drawing without strokes
C40_SelectionAfterFromJson ==
    /\ last.op = "drawingFromJson"
    /\ drawingObject.m_strokes = <<>>
    /\ drawingObject.m_selectedStrokes # <<>>

====
